---------------------------- MODULE Spec2Model ----------------------------
(***************************************************************************)
(* MiniLang compiler front end: Lexer (lexer.py), Parser with its          *)
(* SymbolTable (parser.py), SemanticAnalyzer (semantic.py), TACGenerator   *)
(* (tac.py) and the Compiler.compile pipeline (compiler.py).               *)
(*                                                                         *)
(* Python strings are sequences of one-character strings, so that the      *)
(* scanner works character by character as the code does.  An exception   *)
(* is a record with a field `kind' (the fixed part of the message) and one *)
(* field per formatted value.                                              *)
(***************************************************************************)
EXTENDS Integers, Sequences, FiniteSets, TLC

VARIABLES
    source,             \* the source text handed to the Lexer / to compile
    lexer,              \* the Lexer object in use (None before construction)
    tokens,             \* the tokens the caller's scanning loop collected
    parser,             \* the Parser object (None before construction)
    ast,                \* the ProgramNode returned by parse() (None before)
    semantic_analyzer,  \* the SemanticAnalyzer object: its symbol_table
    tac_generator,      \* the TACGenerator object
    pc,                 \* the caller's position
    stages,             \* history: the stages this run has started, in order
    errors,             \* history: the exceptions that reached the caller
    result,             \* what compile returned ("None" while it runs)
    previous            \* history: the run of compile before this one

vars == <<source, lexer, tokens, parser, ast, semantic_analyzer,
          tac_generator, pc, stages, errors, result, previous>>

(* Python's None: among objects (tokens, nodes, exceptions) a record, so that *)
(* it can be compared with any object; among characters and type names the  *)
(* string "None".                                                            *)
None == [none |-> TRUE]

NoChar == "None"

NoType == "None"

Last(s) == s[Len(s)]

-----------------------------------------------------------------------------
(* Characters (str.isspace, str.isalpha, str.isdigit, str.isalnum,          *)
(* str.lower restricted to ASCII).                                          *)

LowerLetters ==
    <<"a","b","c","d","e","f","g","h","i","j","k","l","m",
      "n","o","p","q","r","s","t","u","v","w","x","y","z">>

UpperLetters ==
    <<"A","B","C","D","E","F","G","H","I","J","K","L","M",
      "N","O","P","Q","R","S","T","U","V","W","X","Y","Z">>

Digits == <<"0","1","2","3","4","5","6","7","8","9">>

Range(s) == {s[i] : i \in DOMAIN s}

isspace(c) == c \in {" ", "\t", "\n", "\r", "\f"}

isalpha(c) == c \in Range(LowerLetters) \cup Range(UpperLetters)

isdigit(c) == c \in Range(Digits)

isalnum(c) == isalpha(c) \/ isdigit(c)

lower_char(c) ==
    IF c \in Range(UpperLetters)
    THEN LowerLetters[CHOOSE i \in DOMAIN UpperLetters : UpperLetters[i] = c]
    ELSE c

lower(s) == [i \in DOMAIN s |-> lower_char(s[i])]

upper_char(c) ==
    IF c \in Range(LowerLetters)
    THEN UpperLetters[CHOOSE i \in DOMAIN LowerLetters : LowerLetters[i] = c]
    ELSE c

upper(s) == [i \in DOMAIN s |-> upper_char(s[i])]

(* int(result) for a run of decimal digits. *)
DigitValue(c) == (CHOOSE i \in DOMAIN Digits : Digits[i] = c) - 1

RECURSIVE int(_)
int(s) ==
    IF s = <<>> THEN 0
    ELSE 10 * int(SubSeq(s, 1, Len(s) - 1)) + DigitValue(s[Len(s)])

(* float(result) for "digits.digits": the decimal value, kept exactly as   *)
(* the whole part and the fraction digits without trailing zeros (two      *)
(* numerals give the same float exactly when these agree, for the short    *)
(* numerals of the model).                                                  *)
RECURSIVE StripTrailingZeros(_)
StripTrailingZeros(s) ==
    IF s # <<>> /\ s[Len(s)] = "0"
    THEN StripTrailingZeros(SubSeq(s, 1, Len(s) - 1))
    ELSE s

DotIndex(s) == CHOOSE i \in DOMAIN s : s[i] = "."

float(s) ==
    [kind  |-> "float",
     whole |-> int(SubSeq(s, 1, DotIndex(s) - 1)),
     frac  |-> StripTrailingZeros(SubSeq(s, DotIndex(s) + 1, Len(s)))]

integer(s) == [kind |-> "int", n |-> int(s)]

-----------------------------------------------------------------------------
(* lexer.py *)

Token(type, value, line, column) ==
    [type |-> type, value |-> value, line |-> line, column |-> column]

keywords ==
    (<<"p","r","o","g","r","a","m">> :> "PROGRAM") @@
    (<<"v","a","r">> :> "VAR") @@
    (<<"b","e","g","i","n">> :> "BEGIN") @@
    (<<"e","n","d">> :> "END") @@
    (<<"i","f">> :> "IF") @@
    (<<"t","h","e","n">> :> "THEN") @@
    (<<"e","l","s","e">> :> "ELSE") @@
    (<<"w","h","i","l","e">> :> "WHILE") @@
    (<<"d","o">> :> "DO") @@
    (<<"r","e","a","d">> :> "READ") @@
    (<<"w","r","i","t","e">> :> "WRITE") @@
    (<<"i","n","t","e","g","e","r">> :> "INTEGER") @@
    (<<"r","e","a","l">> :> "REAL") @@
    (<<"b","o","o","l","e","a","n">> :> "BOOLEAN") @@
    (<<"a","n","d">> :> "AND") @@
    (<<"o","r">> :> "OR") @@
    (<<"n","o","t">> :> "NOT") @@
    (<<"t","r","u","e">> :> "BOOLEAN_LIT") @@
    (<<"f","a","l","s","e">> :> "BOOLEAN_LIT")

(* Lexer.__init__.  `calls' is a history counter: how many times           *)
(* get_next_token was called on this object.                               *)
Lexer(text) ==
    [text         |-> text,
     pos          |-> 0,
     line         |-> 1,
     column       |-> 1,
     current_char |-> IF text # <<>> THEN text[1] ELSE NoChar,
     calls        |-> 0]

Lexer_error(lx, message, char) ==
    [kind    |-> "Lexical error",
     line    |-> lx.line,
     column  |-> lx.column,
     message |-> message,
     char    |-> char]

Lexer_advance(lx) ==
    LET nl   == lx.current_char = "\n"
        pos1 == lx.pos + 1
    IN  [lx EXCEPT
            !.line         = IF nl THEN @ + 1 ELSE @,
            !.column       = (IF nl THEN 0 ELSE @) + 1,
            !.pos          = pos1,
            !.current_char = IF pos1 >= Len(lx.text) THEN NoChar
                             ELSE lx.text[pos1 + 1]]

RECURSIVE Lexer_skip_whitespace(_)
Lexer_skip_whitespace(lx) ==
    IF lx.current_char # NoChar /\ isspace(lx.current_char)
    THEN Lexer_skip_whitespace(Lexer_advance(lx))
    ELSE lx

RECURSIVE Lexer_skip_comment_loop(_)
Lexer_skip_comment_loop(lx) ==
    IF lx.current_char # NoChar /\ lx.current_char # "\n"
    THEN Lexer_skip_comment_loop(Lexer_advance(lx))
    ELSE lx

Lexer_skip_comment(lx) == Lexer_advance(Lexer_skip_comment_loop(lx))

(* A scanning method's answer: the lexer after it, and the token returned  *)
(* or the exception raised (error # None).                                 *)
Returned(lx, tok) == [lexer |-> lx, token |-> tok, error |-> None]

Raised(lx, err) == [lexer |-> lx, token |-> None, error |-> err]

RECURSIVE Lexer_digit_run(_, _)
Lexer_digit_run(lx, res) ==
    IF lx.current_char # NoChar /\ isdigit(lx.current_char)
    THEN Lexer_digit_run(Lexer_advance(lx), Append(res, lx.current_char))
    ELSE [lexer |-> lx, result |-> res]

Lexer_number(lx) ==
    LET a == Lexer_digit_run(lx, <<>>)
    IN  IF a.lexer.current_char = "."
        THEN LET b == Lexer_digit_run(Lexer_advance(a.lexer),
                                      Append(a.result, "."))
             IN  Returned(b.lexer, Token("NUMBER", float(b.result),
                                         b.lexer.line, b.lexer.column))
        ELSE Returned(a.lexer, Token("NUMBER", integer(a.result),
                                     a.lexer.line, a.lexer.column))

RECURSIVE Lexer_identifier_run(_, _)
Lexer_identifier_run(lx, res) ==
    IF lx.current_char # NoChar
       /\ (isalnum(lx.current_char) \/ lx.current_char = "_")
    THEN Lexer_identifier_run(Lexer_advance(lx), Append(res, lx.current_char))
    ELSE [lexer |-> lx, result |-> res]

keywords_get(word) ==
    IF word \in DOMAIN keywords THEN keywords[word] ELSE "ID"

(* identifier() as it would be with the table looked up under the text as  *)
(* written, without lower().                                                *)
Lexer_identifier_as_written(lx) ==
    LET a == Lexer_identifier_run(lx, <<>>)
    IN  Returned(a.lexer, Token(keywords_get(a.result), a.result,
                                a.lexer.line, a.lexer.column))

Lexer_identifier(lx) ==
    LET a == Lexer_identifier_run(lx, <<>>)
    IN  Returned(a.lexer, Token(keywords_get(lower(a.result)), a.result,
                                a.lexer.line, a.lexer.column))

token_types ==
    ("+" :> "PLUS") @@ ("-" :> "MINUS") @@ ("*" :> "MULT") @@
    ("/" :> "DIV") @@ ("=" :> "EQ") @@ ("(" :> "LPAREN") @@
    (")" :> "RPAREN") @@ (";" :> "SEMI") @@ ("," :> "COMMA") @@
    ("." :> "DOT")

(* The end of input as it would be if the cursor were put back to the     *)
(* start of the text when EOF is returned.                                 *)
Lexer_end_of_input_rewinding(lx) ==
    Returned([Lexer(lx.text) EXCEPT !.calls = lx.calls],
             Token("EOF", None, lx.line, lx.column))

(* `return Token(TokenType.EOF, None, ...)': the cursor is left as it is. *)
Lexer_end_of_input(lx) ==
    Returned(lx, Token("EOF", None, lx.line, lx.column))

(* The operator branches: one advance, then the second character decides. *)
Lexer_operator(lx) ==
    LET c  == lx.current_char
        l1 == Lexer_advance(lx)
        l2 == Lexer_advance(l1)
        d  == l1.current_char
    IN  CASE c = ":" ->
               IF d = "="
               THEN Returned(l2, Token("ASSIGN", <<":", "=">>, l2.line, l2.column))
               ELSE Returned(l1, Token("COLON", <<":">>, l1.line, l1.column))
          [] c = "<" ->
               IF d = "="
               THEN Returned(l2, Token("LTE", <<"<", "=">>, l2.line, l2.column))
               ELSE IF d = ">"
               THEN Returned(l2, Token("NEQ", <<"<", ">">>, l2.line, l2.column))
               ELSE Returned(l1, Token("LT", <<"<">>, l1.line, l1.column))
          [] c = ">" ->
               IF d = "="
               THEN Returned(l2, Token("GTE", <<">", "=">>, l2.line, l2.column))
               ELSE Returned(l1, Token("GT", <<">">>, l1.line, l1.column))
          [] c \in DOMAIN token_types ->
               Returned(l1, Token(token_types[c], <<c>>, l1.line, l1.column))
          [] OTHER ->
               Raised(lx, Lexer_error(lx, "Unexpected character", c))

RECURSIVE Lexer_scan(_)
Lexer_scan(lx) ==
    LET c == lx.current_char
    IN  IF c = NoChar THEN Lexer_end_of_input(lx)
        ELSE IF isspace(c) THEN Lexer_scan(Lexer_skip_whitespace(lx))
        ELSE IF c = "{" THEN Lexer_scan(Lexer_skip_comment(lx))
        ELSE IF isalpha(c) \/ c = "_" THEN Lexer_identifier(lx)
        ELSE IF isdigit(c) THEN Lexer_number(lx)
        ELSE Lexer_operator(lx)

Lexer_get_next_token(lx) == Lexer_scan([lx EXCEPT !.calls = @ + 1])

-----------------------------------------------------------------------------
(* ast_nodes.py: a node is a record tagged by its class name. *)

ProgramNode(name, declarations, statements) ==
    [node |-> "ProgramNode", name |-> name, declarations |-> declarations,
     statements |-> statements]

TypeNode(type_name) == [node |-> "TypeNode", type_name |-> type_name]

DeclarationNode(identifiers, type_node) ==
    [node |-> "DeclarationNode", identifiers |-> identifiers,
     type_node |-> type_node]

AssignmentNode(var_name, expression) ==
    [node |-> "AssignmentNode", var_name |-> var_name,
     expression |-> expression]

BinOpNode(left, op, right) ==
    [node |-> "BinOpNode", left |-> left, op |-> op, right |-> right]

UnaryOpNode(op, expr) == [node |-> "UnaryOpNode", op |-> op, expr |-> expr]

VarNode(var_name) == [node |-> "VarNode", var_name |-> var_name]

NumNode(value) == [node |-> "NumNode", value |-> value]

BooleanNode(value) == [node |-> "BooleanNode", value |-> value]

IfNode(condition, then_branch, else_branch) ==
    [node |-> "IfNode", condition |-> condition, then_branch |-> then_branch,
     else_branch |-> else_branch]

WhileNode(condition, body) ==
    [node |-> "WhileNode", condition |-> condition, body |-> body]

ReadNode(var_name) == [node |-> "ReadNode", var_name |-> var_name]

WriteNode(expression) == [node |-> "WriteNode", expression |-> expression]

-----------------------------------------------------------------------------
(* parser.py.  A Parser is [lexer, current_token, symbol_table]; a parsing *)
(* method answers with the parser after it and the value returned, or the  *)
(* exception raised (error # None).                                        *)

Ok(p, value) == [parser |-> p, value |-> value, error |-> None]

Raise(p, err) == [parser |-> p, value |-> None, error |-> err]

(* SymbolTable.__init__, with the current_token attribute that              *)
(* Parser.__init__ plants on it (the first token, never refreshed).         *)
SymbolTable(current_token) ==
    [symbols |-> <<>>, current_token |-> current_token]

SymbolTable_is_declared(st, name) == name \in DOMAIN st.symbols

(* declare as it would be without the test `if name in self.symbols'. *)
SymbolTable_declare_unchecked(st, name, type_name) ==
    [symbol_table |->
         [st EXCEPT !.symbols =
             (name :> [type          |-> type_name,
                       initialized   |-> FALSE,
                       line_declared |-> st.current_token.line]) @@ @],
     error |-> None]

SymbolTable_declare(st, name, type_name) ==
    IF name \in DOMAIN st.symbols
    THEN [symbol_table |-> st,
          error |-> [kind |-> "Semantic error: Variable already declared",
                     name |-> name, line |-> st.current_token.line]]
    ELSE [symbol_table |->
              [st EXCEPT !.symbols =
                  (name :> [type          |-> type_name,
                            initialized   |-> FALSE,
                            line_declared |-> st.current_token.line]) @@ @],
          error |-> None]

SymbolTable_get_type(st, name) ==
    IF SymbolTable_is_declared(st, name) THEN st.symbols[name].type ELSE NoType

SymbolTable_set_initialized(st, name) ==
    IF SymbolTable_is_declared(st, name)
    THEN [st EXCEPT !.symbols[name].initialized = TRUE]
    ELSE st

SymbolTable_get_all_symbols(st) == st.symbols

RECURSIVE Parser_call(_, _, _)

(* Parser.__init__: the first token is read in the constructor. *)
Parser(lx) ==
    LET r == Lexer_get_next_token(lx)
    IN  IF r.error # None
        THEN Raise(None, r.error)
        ELSE Ok([lexer         |-> r.lexer,
                 current_token |-> r.token,
                 symbol_table  |-> SymbolTable(r.token)], None)

Parser_error(p, message) ==
    [kind    |-> "Syntax error",
     line    |-> p.current_token.line,
     message |-> message,
     token   |-> p.current_token]

Parser_eat(p, token_type) ==
    IF p.current_token.type = token_type
    THEN LET r == Lexer_get_next_token(p.lexer)
         IN  IF r.error # None
             THEN Raise([p EXCEPT !.lexer = r.lexer], r.error)
             ELSE Ok([p EXCEPT !.lexer = r.lexer, !.current_token = r.token],
                     None)
    ELSE Raise(p, Parser_error(p,
               [text     |-> "Expected, but found",
                expected |-> token_type,
                found    |-> p.current_token.type,
                line     |-> p.current_token.line]))

Parser_peek(p, token_type) == p.current_token.type = token_type

(* expect_in: None when the current token is one expected, else the error. *)
Parser_expect_in(p, expected_types, context) ==
    IF p.current_token.type \notin Range(expected_types)
    THEN Parser_error(p, [text     |-> "Expected one of",
                          expected |-> expected_types,
                          context  |-> context])
    ELSE None

Parser_type(p) ==
    LET e == Parser_expect_in(p, <<"INTEGER", "REAL", "BOOLEAN">>,
                              "type specification")
    IN  IF e # None THEN Raise(p, e)
        ELSE LET r == Parser_call(p, "eat", <<p.current_token.type>>)
             IN  IF r.error # None THEN r
                 ELSE Ok(r.parser,
                         TypeNode(CASE p.current_token.type = "INTEGER" -> "integer"
                                    [] p.current_token.type = "REAL"    -> "real"
                                    [] p.current_token.type = "BOOLEAN" -> "boolean"))

RECURSIVE Parser_id_list_loop(_, _)
Parser_id_list_loop(p, ids) ==
    IF Parser_peek(p, "COMMA")
    THEN LET r1 == Parser_call(p, "eat", <<"COMMA">>)
         IN  IF r1.error # None THEN r1
             ELSE LET name == r1.parser.current_token.value
                      r2   == Parser_call(r1.parser, "eat", <<"ID">>)
                  IN  IF r2.error # None THEN r2
                      ELSE Parser_id_list_loop(r2.parser, Append(ids, name))
    ELSE Ok(p, ids)

Parser_id_list(p) ==
    LET name == p.current_token.value
        r    == Parser_call(p, "eat", <<"ID">>)
    IN  IF r.error # None THEN r
        ELSE Parser_id_list_loop(r.parser, <<name>>)

(* `for id_name in ids: self.symbol_table.declare(...)' *)
RECURSIVE Parser_declare_all(_, _, _)
Parser_declare_all(p, ids, type_name) ==
    IF ids = <<>> THEN Ok(p, None)
    ELSE LET d == SymbolTable_declare(p.symbol_table, Head(ids), type_name)
         IN  IF d.error # None THEN Raise(p, d.error)
             ELSE Parser_declare_all([p EXCEPT !.symbol_table = d.symbol_table],
                                     Tail(ids), type_name)

Parser_declaration(p) ==
    LET r1 == Parser_call(p, "id_list", <<>>)
    IN  IF r1.error # None THEN r1 ELSE
        LET r2 == Parser_call(r1.parser, "eat", <<"COLON">>)
        IN  IF r2.error # None THEN r2 ELSE
            LET r3 == Parser_call(r2.parser, "type", <<>>)
            IN  IF r3.error # None THEN r3 ELSE
                LET r4 == Parser_declare_all(r3.parser, r1.value,
                                             r3.value.type_name)
                IN  IF r4.error # None THEN r4
                    ELSE Ok(r4.parser, DeclarationNode(r1.value, r3.value))

RECURSIVE Parser_declaration_list_loop(_, _)
Parser_declaration_list_loop(p, declarations) ==
    IF Parser_peek(p, "SEMI")
    THEN LET r1 == Parser_call(p, "eat", <<"SEMI">>)
         IN  IF r1.error # None THEN r1
             ELSE IF Parser_peek(r1.parser, "BEGIN")
             THEN Ok(r1.parser, declarations)
             ELSE LET r2 == Parser_call(r1.parser, "declaration", <<>>)
                  IN  IF r2.error # None THEN r2
                      ELSE Parser_declaration_list_loop(
                               r2.parser, Append(declarations, r2.value))
    ELSE Ok(p, declarations)

Parser_declaration_list(p) ==
    LET r == Parser_call(p, "declaration", <<>>)
    IN  IF r.error # None THEN r
        ELSE Parser_declaration_list_loop(r.parser, <<r.value>>)

Parser_declarations(p) ==
    IF Parser_peek(p, "VAR")
    THEN LET r == Parser_call(p, "eat", <<"VAR">>)
         IN  IF r.error # None THEN r
             ELSE Parser_call(r.parser, "declaration_list", <<>>)
    ELSE Ok(p, <<>>)

NotDeclared(name, line) ==
    [kind |-> "Semantic error: Variable not declared",
     name |-> name, line |-> line]

RECURSIVE Parser_factor(_), Parser_statements_loop(_, _, _)

(* factor() as it would be without the test of is_declared: a name is    *)
(* taken as a variable whether it is declared or not.                      *)
Parser_factor_unchecked(p) ==
    LET token == p.current_token
    IN  CASE Parser_peek(p, "ID") ->
               LET r == Parser_call(p, "eat", <<"ID">>)
               IN  IF r.error # None THEN r
                   ELSE Ok(r.parser, VarNode(token.value))
          [] Parser_peek(p, "NUMBER") ->
               LET r == Parser_call(p, "eat", <<"NUMBER">>)
               IN  IF r.error # None THEN r
                   ELSE Ok(r.parser, NumNode(token.value))
          [] Parser_peek(p, "LPAREN") ->
               LET r1 == Parser_call(p, "eat", <<"LPAREN">>)
               IN  IF r1.error # None THEN r1 ELSE
                   LET r2 == Parser_call(r1.parser, "expression", <<>>)
                   IN  IF r2.error # None THEN r2 ELSE
                       LET r3 == Parser_call(r2.parser, "eat", <<"RPAREN">>)
                       IN  IF r3.error # None THEN r3
                           ELSE Ok(r3.parser, r2.value)
          [] Parser_peek(p, "NOT") ->
               LET r1 == Parser_call(p, "eat", <<"NOT">>)
               IN  IF r1.error # None THEN r1 ELSE
                   LET r2 == Parser_factor(r1.parser)
                   IN  IF r2.error # None THEN r2
                       ELSE Ok(r2.parser, UnaryOpNode(token, r2.value))
          [] Parser_peek(p, "BOOLEAN_LIT") ->
               LET r == Parser_call(p, "eat", <<"BOOLEAN_LIT">>)
               IN  IF r.error # None THEN r
                   ELSE Ok(r.parser,
                           BooleanNode(lower(token.value) = <<"t","r","u","e">>))
          [] OTHER ->
               Raise(p, Parser_error(p, [text  |-> "Expected factor, but found",
                                         found |-> token.type]))

Parser_factor(p) ==
    LET token == p.current_token
    IN  CASE Parser_peek(p, "ID") ->
               IF ~SymbolTable_is_declared(p.symbol_table, token.value)
               THEN Raise(p, NotDeclared(token.value, token.line))
               ELSE LET r == Parser_call(p, "eat", <<"ID">>)
                    IN  IF r.error # None THEN r
                        ELSE Ok(r.parser, VarNode(token.value))
          [] Parser_peek(p, "NUMBER") ->
               LET r == Parser_call(p, "eat", <<"NUMBER">>)
               IN  IF r.error # None THEN r
                   ELSE Ok(r.parser, NumNode(token.value))
          [] Parser_peek(p, "LPAREN") ->
               LET r1 == Parser_call(p, "eat", <<"LPAREN">>)
               IN  IF r1.error # None THEN r1 ELSE
                   LET r2 == Parser_call(r1.parser, "expression", <<>>)
                   IN  IF r2.error # None THEN r2 ELSE
                       LET r3 == Parser_call(r2.parser, "eat", <<"RPAREN">>)
                       IN  IF r3.error # None THEN r3
                           ELSE Ok(r3.parser, r2.value)
          [] Parser_peek(p, "NOT") ->
               LET r1 == Parser_call(p, "eat", <<"NOT">>)
               IN  IF r1.error # None THEN r1 ELSE
                   LET r2 == Parser_factor(r1.parser)
                   IN  IF r2.error # None THEN r2
                       ELSE Ok(r2.parser, UnaryOpNode(token, r2.value))
          [] Parser_peek(p, "BOOLEAN_LIT") ->
               LET r == Parser_call(p, "eat", <<"BOOLEAN_LIT">>)
               IN  IF r.error # None THEN r
                   ELSE Ok(r.parser,
                           BooleanNode(lower(token.value) = <<"t","r","u","e">>))
          [] OTHER ->
               Raise(p, Parser_error(p, [text  |-> "Expected factor, but found",
                                         found |-> token.type]))

RECURSIVE Parser_term_rest(_, _)
Parser_term_rest(p, left) ==
    IF p.current_token.type \in {"MULT", "DIV", "AND"}
    THEN LET op == p.current_token
             r1 == Parser_call(p, "eat", <<p.current_token.type>>)
         IN  IF r1.error # None THEN r1 ELSE
             LET r2 == Parser_call(r1.parser, "factor", <<>>)
             IN  IF r2.error # None THEN r2
                 ELSE Parser_term_rest(r2.parser, BinOpNode(left, op, r2.value))
    ELSE Ok(p, left)

Parser_term(p) ==
    LET r == Parser_call(p, "factor", <<>>)
    IN  IF r.error # None THEN r ELSE Parser_call(r.parser, "term_rest", <<r.value>>)

RECURSIVE Parser_simple_expr_rest(_, _)
Parser_simple_expr_rest(p, left) ==
    IF p.current_token.type \in {"PLUS", "MINUS", "OR"}
    THEN LET op == p.current_token
             r1 == Parser_call(p, "eat", <<p.current_token.type>>)
         IN  IF r1.error # None THEN r1 ELSE
             LET r2 == Parser_call(r1.parser, "term", <<>>)
             IN  IF r2.error # None THEN r2
                 ELSE Parser_simple_expr_rest(r2.parser,
                                              BinOpNode(left, op, r2.value))
    ELSE Ok(p, left)

Parser_simple_expr(p) ==
    LET r == Parser_call(p, "term", <<>>)
    IN  IF r.error # None THEN r
        ELSE Parser_call(r.parser, "simple_expr_rest", <<r.value>>)

Parser_expression_rest(p, left) ==
    IF p.current_token.type \in {"EQ", "NEQ", "LT", "GT", "LTE", "GTE"}
    THEN LET op == p.current_token
             r1 == Parser_call(p, "eat", <<p.current_token.type>>)
         IN  IF r1.error # None THEN r1 ELSE
             LET r2 == Parser_call(r1.parser, "simple_expr", <<>>)
             IN  IF r2.error # None THEN r2
                 ELSE Ok(r2.parser, BinOpNode(left, op, r2.value))
    ELSE Ok(p, left)

Parser_expression(p) ==
    LET r == Parser_call(p, "simple_expr", <<>>)
    IN  IF r.error # None THEN r
        ELSE Parser_call(r.parser, "expression_rest", <<r.value>>)

Parser_assignment(p) ==
    LET var_name == p.current_token.value
        line     == p.current_token.line
        r1       == Parser_call(p, "eat", <<"ID">>)
    IN  IF r1.error # None THEN r1 ELSE
        LET r2 == Parser_call(r1.parser, "eat", <<"ASSIGN">>)
        IN  IF r2.error # None THEN r2 ELSE
            LET r3 == Parser_call(r2.parser, "expression", <<>>)
            IN  IF r3.error # None THEN r3
                ELSE IF ~SymbolTable_is_declared(r3.parser.symbol_table, var_name)
                THEN Raise(r3.parser, NotDeclared(var_name, line))
                ELSE Ok([r3.parser EXCEPT !.symbol_table =
                             SymbolTable_set_initialized(@, var_name)],
                        AssignmentNode(var_name, r3.value))

Parser_read_stmt(p) ==
    LET r1 == Parser_call(p, "eat", <<"READ">>)
    IN  IF r1.error # None THEN r1 ELSE
        LET r2 == Parser_call(r1.parser, "eat", <<"LPAREN">>)
        IN  IF r2.error # None THEN r2 ELSE
            LET var_name == r2.parser.current_token.value
                line     == r2.parser.current_token.line
                r3       == Parser_call(r2.parser, "eat", <<"ID">>)
            IN  IF r3.error # None THEN r3 ELSE
                LET r4 == Parser_call(r3.parser, "eat", <<"RPAREN">>)
                IN  IF r4.error # None THEN r4
                    ELSE IF ~SymbolTable_is_declared(r4.parser.symbol_table,
                                                     var_name)
                    THEN Raise(r4.parser, NotDeclared(var_name, line))
                    ELSE Ok([r4.parser EXCEPT !.symbol_table =
                                 SymbolTable_set_initialized(@, var_name)],
                            ReadNode(var_name))

Parser_write_stmt(p) ==
    LET r1 == Parser_call(p, "eat", <<"WRITE">>)
    IN  IF r1.error # None THEN r1 ELSE
        LET r2 == Parser_call(r1.parser, "eat", <<"LPAREN">>)
        IN  IF r2.error # None THEN r2 ELSE
            LET r3 == Parser_call(r2.parser, "expression", <<>>)
            IN  IF r3.error # None THEN r3 ELSE
                LET r4 == Parser_call(r3.parser, "eat", <<"RPAREN">>)
                IN  IF r4.error # None THEN r4
                    ELSE Ok(r4.parser, WriteNode(r3.value))

Parser_statements(p, stop_tokens) == Parser_statements_loop(p, stop_tokens, <<>>)

Parser_block(p) ==
    LET r1 == Parser_call(p, "eat", <<"BEGIN">>)
    IN  IF r1.error # None THEN r1 ELSE
        LET r2 == Parser_call(r1.parser, "statements", <<{"END"}>>)
        IN  IF r2.error # None THEN r2 ELSE
            LET r3 == Parser_call(r2.parser, "eat", <<"END">>)
            IN  IF r3.error # None THEN r3
                ELSE Ok(r3.parser, r2.value)

(* `self.block()' when a BEGIN follows, else `[self.statement()]'. *)
Parser_branch(p) ==
    IF Parser_peek(p, "BEGIN")
    THEN Parser_call(p, "block", <<>>)
    ELSE LET r == Parser_call(p, "statement", <<>>)
         IN  IF r.error # None THEN r ELSE Ok(r.parser, <<r.value>>)

Parser_if_stmt(p) ==
    LET r1 == Parser_call(p, "eat", <<"IF">>)
    IN  IF r1.error # None THEN r1 ELSE
        LET r2 == Parser_call(r1.parser, "expression", <<>>)
        IN  IF r2.error # None THEN r2 ELSE
            LET r3 == Parser_call(r2.parser, "eat", <<"THEN">>)
            IN  IF r3.error # None THEN r3 ELSE
                LET r4 == Parser_branch(r3.parser)
                IN  IF r4.error # None THEN r4
                    ELSE IF Parser_peek(r4.parser, "ELSE")
                    THEN LET r5 == Parser_call(r4.parser, "eat", <<"ELSE">>)
                         IN  IF r5.error # None THEN r5 ELSE
                             LET r6 == Parser_branch(r5.parser)
                             IN  IF r6.error # None THEN r6
                                 ELSE Ok(r6.parser,
                                         IfNode(r2.value, r4.value, r6.value))
                    ELSE Ok(r4.parser, IfNode(r2.value, r4.value, <<>>))

Parser_while_stmt(p) ==
    LET r1 == Parser_call(p, "eat", <<"WHILE">>)
    IN  IF r1.error # None THEN r1 ELSE
        LET r2 == Parser_call(r1.parser, "expression", <<>>)
        IN  IF r2.error # None THEN r2 ELSE
            LET r3 == Parser_call(r2.parser, "eat", <<"DO">>)
            IN  IF r3.error # None THEN r3 ELSE
                LET r4 == Parser_branch(r3.parser)
                IN  IF r4.error # None THEN r4
                    ELSE Ok(r4.parser, WhileNode(r2.value, r4.value))

Parser_statement(p) ==
    LET e == Parser_expect_in(p, <<"ID", "IF", "WHILE", "READ", "WRITE">>,
                              "statement")
    IN  IF e # None THEN Raise(p, e)
        ELSE CASE Parser_peek(p, "ID")    -> Parser_call(p, "assignment", <<>>)
               [] Parser_peek(p, "IF")    -> Parser_call(p, "if_stmt", <<>>)
               [] Parser_peek(p, "WHILE") -> Parser_call(p, "while_stmt", <<>>)
               [] Parser_peek(p, "READ")  -> Parser_call(p, "read_stmt", <<>>)
               [] Parser_peek(p, "WRITE") -> Parser_call(p, "write_stmt", <<>>)

Parser_statements_loop(p, stop_tokens, statements) ==
    IF p.current_token.type \notin stop_tokens \cup {"EOF"}
    THEN LET r1 == Parser_call(p, "statement", <<>>)
         IN  IF r1.error # None THEN r1
             ELSE IF Parser_peek(r1.parser, "SEMI")
             THEN LET r2 == Parser_call(r1.parser, "eat", <<"SEMI">>)
                  IN  IF r2.error # None THEN r2
                      ELSE IF r2.parser.current_token.type \in stop_tokens
                      THEN Ok(r2.parser, Append(statements, r1.value))
                      ELSE Parser_statements_loop(
                               r2.parser, stop_tokens,
                               Append(statements, r1.value))
             ELSE IF r1.parser.current_token.type \in stop_tokens
             THEN Ok(r1.parser, Append(statements, r1.value))
             ELSE Parser_statements_loop(r1.parser, stop_tokens,
                                         Append(statements, r1.value))
    ELSE Ok(p, statements)

Parser_program(p) ==
    LET r1 == Parser_call(p, "eat", <<"PROGRAM">>)
    IN  IF r1.error # None THEN r1 ELSE
        LET program_name == r1.parser.current_token.value
            r2 == Parser_call(r1.parser, "eat", <<"ID">>)
        IN  IF r2.error # None THEN r2 ELSE
            LET r3 == Parser_call(r2.parser, "eat", <<"SEMI">>)
            IN  IF r3.error # None THEN r3 ELSE
                LET r4 == Parser_call(r3.parser, "declarations", <<>>)
                IN  IF r4.error # None THEN r4 ELSE
                    LET r5 == Parser_call(r4.parser, "eat", <<"BEGIN">>)
                    IN  IF r5.error # None THEN r5 ELSE
                        LET r6 == Parser_call(r5.parser, "statements", <<{"END", "ELSE"}>>)
                        IN  IF r6.error # None THEN r6 ELSE
                            LET r7 == Parser_call(r6.parser, "eat", <<"END">>)
                            IN  IF r7.error # None THEN r7 ELSE
                                LET r8 == Parser_call(r7.parser, "eat", <<"DOT">>)
                                IN  IF r8.error # None THEN r8
                                    ELSE IF ~Parser_peek(r8.parser, "EOF")
                                    THEN Raise(r8.parser, Parser_error(r8.parser,
                                             [text |-> "Unexpected tokens after program end"]))
                                    ELSE Ok(r8.parser,
                                            ProgramNode(program_name, r4.value,
                                                        r6.value))

(* parse(): every exception of program() is wrapped and raised again. *)
Parser_parse(p) ==
    LET r == Parser_call(p, "program", <<>>)
    IN  IF r.error # None
        THEN Raise(r.parser, [kind |-> "Parsing failed", cause |-> r.error])
        ELSE r

------------------------------------------------------------------------

(* `self.method(args)': a call of one parsing method from another, by the   *)
(* method's name.                                                           *)
Parser_call(p, method, args) ==
    CASE method = "eat"              -> Parser_eat(p, args[1])
      [] method = "type"             -> Parser_type(p)
      [] method = "id_list"          -> Parser_id_list(p)
      [] method = "declaration"      -> Parser_declaration(p)
      [] method = "declaration_list" -> Parser_declaration_list(p)
      [] method = "declarations"     -> Parser_declarations(p)
      [] method = "factor"           -> Parser_factor(p)
      [] method = "term_rest"        -> Parser_term_rest(p, args[1])
      [] method = "term"             -> Parser_term(p)
      [] method = "simple_expr_rest" -> Parser_simple_expr_rest(p, args[1])
      [] method = "simple_expr"      -> Parser_simple_expr(p)
      [] method = "expression_rest"  -> Parser_expression_rest(p, args[1])
      [] method = "expression"       -> Parser_expression(p)
      [] method = "assignment"       -> Parser_assignment(p)
      [] method = "read_stmt"        -> Parser_read_stmt(p)
      [] method = "write_stmt"       -> Parser_write_stmt(p)
      [] method = "statements"       -> Parser_statements(p, args[1])
      [] method = "block"            -> Parser_block(p)
      [] method = "if_stmt"          -> Parser_if_stmt(p)
      [] method = "while_stmt"       -> Parser_while_stmt(p)
      [] method = "statement"        -> Parser_statement(p)
      [] method = "program"          -> Parser_program(p)
      [] method = "parse"            -> Parser_parse(p)

-----
(* semantic.py.  An analysis method answers with the analyzer after it and *)
(* the type returned (NoType where the code returns None), or the          *)
(* exception raised.                                                        *)

Typed(sa, type) == [analyzer |-> sa, type |-> type, error |-> None]

Fails(sa, err) == [analyzer |-> sa, type |-> NoType, error |-> err]

arithmetic_ops == {<<"+">>, <<"-">>, <<"*">>, <<"/">>}

relational_ops ==
    {<<"=">>, <<"<", ">">>, <<"<">>, <<">">>, <<"<", "=">>, <<">", "=">>}

logical_ops == {<<"a","n","d">>, <<"o","r">>}

numeric_types == {"integer", "real"}

(* The result type as it would be if `real' were returned only when both   *)
(* operands are real.                                                       *)
TypeChecker_binary_result_both_real(left_type, op, right_type) ==
    IF op \in arithmetic_ops
    THEN IF left_type \in numeric_types /\ right_type \in numeric_types
         THEN IF {left_type, right_type} = {"real"} THEN "real"
              ELSE "integer"
         ELSE NoType
    ELSE IF op \in relational_ops
    THEN IF left_type = right_type
            \/ (left_type \in numeric_types /\ right_type \in numeric_types)
         THEN "boolean"
         ELSE NoType
    ELSE IF op \in logical_ops
    THEN IF left_type = "boolean" /\ right_type = "boolean"
         THEN "boolean"
         ELSE NoType
    ELSE NoType

(* check_binary_operation: the type returned, or NoType where it raises. *)
TypeChecker_binary_result(left_type, op, right_type) ==
    IF op \in arithmetic_ops
    THEN IF left_type \in numeric_types /\ right_type \in numeric_types
         THEN IF "real" \in {left_type, right_type} THEN "real" ELSE "integer"
         ELSE NoType
    ELSE IF op \in relational_ops
    THEN IF left_type = right_type
            \/ (left_type \in numeric_types /\ right_type \in numeric_types)
         THEN "boolean"
         ELSE NoType
    ELSE IF op \in logical_ops
    THEN IF left_type = "boolean" /\ right_type = "boolean"
         THEN "boolean"
         ELSE NoType
    ELSE NoType

TypeChecker_check_binary_operation(sa, left_type, op, right_type) ==
    LET t == TypeChecker_binary_result(left_type, op, right_type)
    IN  IF t # NoType THEN Typed(sa, t)
        ELSE Fails(sa, [kind       |-> "Type error: Incompatible types for operator",
                        left_type  |-> left_type,
                        right_type |-> right_type,
                        op         |-> op])

TypeChecker_check_unary_operation(sa, op, expr_type) ==
    IF op = <<"n","o","t">> /\ expr_type = "boolean"
    THEN Typed(sa, "boolean")
    ELSE Fails(sa, [kind      |-> "Type error: Operator cannot be applied to type",
                    op        |-> op,
                    expr_type |-> expr_type])

SemanticAnalyzer == [symbol_table |-> <<>>]

SemanticNotDeclared(var_name) ==
    [kind |-> "Semantic error: Variable not declared (analyzer)",
     name |-> var_name]

(* analyze_num as it would be if every literal were typed integer. *)
SemanticAnalyzer_analyze_num_integer(node) == "integer"

SemanticAnalyzer_analyze_num(node) ==
    IF node.value.kind = "int" THEN "integer" ELSE "real"

SemanticAnalyzer_analyze_boolean(node) == "boolean"

SemanticAnalyzer_analyze_var(sa, node) ==
    IF node.var_name \notin DOMAIN sa.symbol_table
    THEN Fails(sa, SemanticNotDeclared(node.var_name))
    ELSE Typed(sa, sa.symbol_table[node.var_name])

(* The parser hands every branch and body over as a list, the first case   *)
(* of _iter_statements: the statements in order.                           *)
SemanticAnalyzer_iter_statements(maybe) == maybe

RECURSIVE SemanticAnalyzer_analyze(_, _), SemanticAnalyzer_analyze_all(_, _)

SemanticAnalyzer_analyze_binop(sa, node) ==
    LET l == SemanticAnalyzer_analyze(sa, node.left)
    IN  IF l.error # None THEN l ELSE
        LET r == SemanticAnalyzer_analyze(sa, node.right)
        IN  IF r.error # None THEN r
            ELSE TypeChecker_check_binary_operation(sa, l.type, node.op.value,
                                                    r.type)

SemanticAnalyzer_analyze_unaryop(sa, node) ==
    LET e == SemanticAnalyzer_analyze(sa, node.expr)
    IN  IF e.error # None THEN e
        ELSE TypeChecker_check_unary_operation(sa, node.op.value, e.type)

(* The assignment check itself: the exception, or None when it passes. *)
SemanticAnalyzer_assignment_check(var_type, expr_type, var_name) ==
    IF var_type # expr_type
       /\ ~(var_type \in numeric_types /\ expr_type \in numeric_types)
    THEN [kind      |-> "Type error: Cannot assign",
          expr_type |-> expr_type,
          var_type  |-> var_type,
          var_name  |-> var_name]
    ELSE None

SemanticAnalyzer_analyze_assignment(sa, node) ==
    IF node.var_name \notin DOMAIN sa.symbol_table
    THEN Fails(sa, SemanticNotDeclared(node.var_name))
    ELSE LET var_type == sa.symbol_table[node.var_name]
             e        == SemanticAnalyzer_analyze(sa, node.expression)
         IN  IF e.error # None THEN e
             ELSE LET c == SemanticAnalyzer_assignment_check(
                               var_type, e.type, node.var_name)
                  IN  IF c # None THEN Fails(sa, c) ELSE Typed(sa, NoType)

SemanticAnalyzer_analyze_if(sa, node) ==
    LET c == SemanticAnalyzer_analyze(sa, node.condition)
    IN  IF c.error # None THEN c
        ELSE IF c.type # "boolean"
        THEN Fails(sa, [kind |-> "Type error: If condition must be boolean",
                        got  |-> c.type])
        ELSE LET t == SemanticAnalyzer_analyze_all(
                          sa, SemanticAnalyzer_iter_statements(node.then_branch))
             IN  IF t.error # None THEN t
                 ELSE SemanticAnalyzer_analyze_all(
                          sa, SemanticAnalyzer_iter_statements(node.else_branch))

SemanticAnalyzer_analyze_while(sa, node) ==
    LET c == SemanticAnalyzer_analyze(sa, node.condition)
    IN  IF c.error # None THEN c
        ELSE IF c.type # "boolean"
        THEN Fails(sa, [kind |-> "Type error: While condition must be boolean",
                        got  |-> c.type])
        ELSE SemanticAnalyzer_analyze_all(
                 sa, SemanticAnalyzer_iter_statements(node.body))

(* `for identifier in node.identifiers: self.symbol_table[identifier] = ...' *)
SemanticAnalyzer_analyze_declaration(sa, node) ==
    [sa EXCEPT !.symbol_table =
        [id \in Range(node.identifiers) |-> node.type_node.type_name] @@ @]

RECURSIVE SemanticAnalyzer_analyze_declarations(_, _)
SemanticAnalyzer_analyze_declarations(sa, declarations) ==
    IF declarations = <<>> THEN sa
    ELSE SemanticAnalyzer_analyze_declarations(
             SemanticAnalyzer_analyze_declaration(sa, Head(declarations)),
             Tail(declarations))

SemanticAnalyzer_analyze_program(sa, node) ==
    SemanticAnalyzer_analyze_all(
        SemanticAnalyzer_analyze_declarations(sa, node.declarations),
        node.statements)

(* `for stmt in ...: self.analyze(stmt)': the first exception ends the loop. *)
SemanticAnalyzer_analyze_all(sa, statements) ==
    IF statements = <<>> THEN Typed(sa, NoType)
    ELSE LET r == SemanticAnalyzer_analyze(sa, Head(statements))
         IN  IF r.error # None THEN r
             ELSE SemanticAnalyzer_analyze_all(r.analyzer, Tail(statements))

SemanticAnalyzer_analyze(sa, node) ==
    CASE node.node = "ProgramNode" ->
           [SemanticAnalyzer_analyze_program(sa, node) EXCEPT !.type = NoType]
      [] node.node = "AssignmentNode" ->
           [SemanticAnalyzer_analyze_assignment(sa, node) EXCEPT !.type = NoType]
      [] node.node = "BinOpNode"   -> SemanticAnalyzer_analyze_binop(sa, node)
      [] node.node = "UnaryOpNode" -> SemanticAnalyzer_analyze_unaryop(sa, node)
      [] node.node = "IfNode" ->
           [SemanticAnalyzer_analyze_if(sa, node) EXCEPT !.type = NoType]
      [] node.node = "WhileNode" ->
           [SemanticAnalyzer_analyze_while(sa, node) EXCEPT !.type = NoType]
      [] node.node = "ReadNode" ->
           IF node.var_name \notin DOMAIN sa.symbol_table
           THEN Fails(sa, SemanticNotDeclared(node.var_name))
           ELSE Typed(sa, sa.symbol_table[node.var_name])
      [] node.node = "WriteNode" ->
           [SemanticAnalyzer_analyze(sa, node.expression) EXCEPT !.type = NoType]
      [] node.node = "VarNode" -> SemanticAnalyzer_analyze_var(sa, node)
      [] node.node = "NumNode" ->
           Typed(sa, SemanticAnalyzer_analyze_num(node))
      [] node.node = "BooleanNode" ->
           Typed(sa, SemanticAnalyzer_analyze_boolean(node))
      [] OTHER ->
           Fails(sa, [kind |-> "Semantic error: Unknown node type",
                      node |-> node.node])

-----------------------------------------------------------------------------
(* tac.py.  An instruction is the formatted line, a sequence of characters. *)
(* A generation method answers with the generator after it and the value    *)
(* returned.                                                                 *)

(* str() of a non-negative int, and of a float (its shortest repr, for the *)
(* short numerals of the model: whole part, ".", fraction or "0").         *)
RECURSIVE str_int(_)
str_int(n) ==
    IF n < 10 THEN <<Digits[n + 1]>>
    ELSE str_int(n \div 10) \o <<Digits[(n % 10) + 1]>>

str_float(v) ==
    str_int(v.whole) \o <<".">> \o (IF v.frac = <<>> THEN <<"0">> ELSE v.frac)

str_number(v) == IF v.kind = "int" THEN str_int(v.n) ELSE str_float(v)

Gen(g, value) == [generator |-> g, value |-> value]

(* __init__ as it would be with the counters starting at 1. *)
TACGenerator_counting_from_one ==
    [temp_count |-> 1, label_count |-> 1, code |-> <<>>, allocated |-> <<>>]

(* __init__.  `allocated' is history: the names new_temp and new_label of   *)
(* this object have returned, in the order of the calls.                    *)
TACGenerator ==
    [temp_count |-> 0, label_count |-> 0, code |-> <<>>, allocated |-> <<>>]

(* new_temp as it would be without line 12, `self.temp_count += 1'. *)
TACGenerator_new_temp_stuck(g) ==
    LET temp == <<"t">> \o str_int(g.temp_count)
    IN  Gen([g EXCEPT !.allocated = Append(@, temp)], temp)

TACGenerator_new_temp(g) ==
    LET temp == <<"t">> \o str_int(g.temp_count)
    IN  Gen([g EXCEPT !.temp_count = @ + 1, !.allocated = Append(@, temp)],
            temp)

(* new_label as it would be without line 17, `self.label_count += 1'. *)
TACGenerator_new_label_stuck(g) ==
    LET label == <<"L">> \o str_int(g.label_count)
    IN  Gen([g EXCEPT !.allocated = Append(@, label)], label)

TACGenerator_new_label(g) ==
    LET label == <<"L">> \o str_int(g.label_count)
    IN  Gen([g EXCEPT !.label_count = @ + 1, !.allocated = Append(@, label)],
            label)

(* self.code.append(line) *)
TACGenerator_append(g, line) == [g EXCEPT !.code = Append(@, line)]

op_map ==
    (<<"+">> :> <<"A","D","D">>) @@ (<<"-">> :> <<"S","U","B">>) @@
    (<<"*">> :> <<"M","U","L">>) @@ (<<"/">> :> <<"D","I","V">>) @@
    (<<"=">> :> <<"E","Q">>) @@ (<<"<", ">">> :> <<"N","E">>) @@
    (<<"<">> :> <<"L","T">>) @@ (<<">">> :> <<"G","T">>) @@
    (<<"<", "=">> :> <<"L","E">>) @@ (<<">", "=">> :> <<"G","E">>) @@
    (<<"a","n","d">> :> <<"A","N","D">>) @@ (<<"o","r">> :> <<"O","R">>)

op_map_get(op) == IF op \in DOMAIN op_map THEN op_map[op] ELSE upper(op)

SP == <<" ">>

ASSIGNS == <<" ", ":", "=", " ">>

RECURSIVE TACGenerator_generate(_, _), TACGenerator_generate_all(_, _)

TACGenerator_generate_assignment(g, node) ==
    LET v == TACGenerator_generate(g, node.expression)
    IN  Gen(TACGenerator_append(v.generator,
                                node.var_name \o ASSIGNS \o v.value),
            node.var_name)

TACGenerator_generate_binop(g, node) ==
    LET l == TACGenerator_generate(g, node.left)
        r == TACGenerator_generate(l.generator, node.right)
        t == TACGenerator_new_temp(r.generator)
    IN  Gen(TACGenerator_append(t.generator,
                t.value \o ASSIGNS \o l.value \o SP
                    \o op_map_get(node.op.value) \o SP \o r.value),
            t.value)

TACGenerator_generate_unary(g, node) ==
    LET e == TACGenerator_generate(g, node.expr)
        t == TACGenerator_new_temp(e.generator)
    IN  Gen(TACGenerator_append(t.generator,
                t.value \o ASSIGNS
                    \o (IF node.op.value = <<"n","o","t">>
                        THEN <<"N","O","T">> ELSE node.op.value)
                    \o SP \o e.value),
            t.value)

(* generate_if as it would be without the test of line 98: the jump over    *)
(* the else branch and the end label are emitted for every if.              *)
TACGenerator_generate_if_always_else(g, node) ==
    LET c  == TACGenerator_generate(g, node.condition)
        fl == TACGenerator_new_label(c.generator)
        el == TACGenerator_new_label(fl.generator)
        g1 == TACGenerator_append(el.generator,
                  <<"I","F","_","F","A","L","S","E"," ">> \o c.value
                      \o <<" ","G","O","T","O"," ">> \o fl.value)
        g2 == TACGenerator_generate_all(g1, node.then_branch)
        g3 == TACGenerator_append(g2, <<"G","O","T","O"," ">> \o el.value)
        g4 == TACGenerator_append(g3, <<"L","A","B","E","L"," ">> \o fl.value)
        g5 == TACGenerator_generate_all(g4, node.else_branch)
    IN  TACGenerator_append(g5, <<"L","A","B","E","L"," ">> \o el.value)

TACGenerator_generate_if(g, node) ==
    LET c  == TACGenerator_generate(g, node.condition)
        fl == TACGenerator_new_label(c.generator)
        el == TACGenerator_new_label(fl.generator)
        g1 == TACGenerator_append(el.generator,
                  <<"I","F","_","F","A","L","S","E"," ">> \o c.value
                      \o <<" ","G","O","T","O"," ">> \o fl.value)
        g2 == TACGenerator_generate_all(g1, node.then_branch)
    IN  IF node.else_branch # <<>>
        THEN LET g3 == TACGenerator_append(g2, <<"G","O","T","O"," ">> \o el.value)
                 g4 == TACGenerator_append(g3, <<"L","A","B","E","L"," ">> \o fl.value)
                 g5 == TACGenerator_generate_all(g4, node.else_branch)
             IN  TACGenerator_append(g5, <<"L","A","B","E","L"," ">> \o el.value)
        ELSE TACGenerator_append(g2, <<"L","A","B","E","L"," ">> \o fl.value)

(* generate_while as it would be with the condition lowered before the     *)
(* start label is emitted: the loop would jump back behind its test.        *)
TACGenerator_generate_while_condition_first(g, node) ==
    LET sl == TACGenerator_new_label(g)
        el == TACGenerator_new_label(sl.generator)
        c  == TACGenerator_generate(el.generator, node.condition)
        g1 == TACGenerator_append(c.generator,
                  <<"L","A","B","E","L"," ">> \o sl.value)
        g2 == TACGenerator_append(g1,
                  <<"I","F","_","F","A","L","S","E"," ">> \o c.value
                      \o <<" ","G","O","T","O"," ">> \o el.value)
        g3 == TACGenerator_generate_all(g2, node.body)
        g4 == TACGenerator_append(g3, <<"G","O","T","O"," ">> \o sl.value)
    IN  TACGenerator_append(g4, <<"L","A","B","E","L"," ">> \o el.value)

TACGenerator_generate_while(g, node) ==
    LET sl == TACGenerator_new_label(g)
        el == TACGenerator_new_label(sl.generator)
        g1 == TACGenerator_append(el.generator,
                  <<"L","A","B","E","L"," ">> \o sl.value)
        c  == TACGenerator_generate(g1, node.condition)
        g2 == TACGenerator_append(c.generator,
                  <<"I","F","_","F","A","L","S","E"," ">> \o c.value
                      \o <<" ","G","O","T","O"," ">> \o el.value)
        g3 == TACGenerator_generate_all(g2, node.body)
        g4 == TACGenerator_append(g3, <<"G","O","T","O"," ">> \o sl.value)
    IN  TACGenerator_append(g4, <<"L","A","B","E","L"," ">> \o el.value)

TACGenerator_generate_read(g, node) ==
    TACGenerator_append(g, <<"R","E","A","D"," ">> \o node.var_name)

TACGenerator_generate_write(g, node) ==
    LET v == TACGenerator_generate(g, node.expression)
    IN  TACGenerator_append(v.generator, <<"W","R","I","T","E"," ">> \o v.value)

(* generate_program as it would be without line 54, the closing END. *)
TACGenerator_generate_program_unclosed(g, node) ==
    TACGenerator_generate_all(
        TACGenerator_append(g, <<"P","R","O","G","R","A","M"," ">> \o node.name),
        node.statements)

TACGenerator_generate_program(g, node) ==
    LET g1 == TACGenerator_append(g,
                  <<"P","R","O","G","R","A","M"," ">> \o node.name)
        g2 == TACGenerator_generate_all(g1, node.statements)
    IN  TACGenerator_append(g2, <<"E","N","D">>)

(* `for stmt in ...: self.generate(stmt)' *)
TACGenerator_generate_all(g, statements) ==
    IF statements = <<>> THEN g
    ELSE TACGenerator_generate_all(
             TACGenerator_generate(g, Head(statements)).generator,
             Tail(statements))

(* generate(): a statement or program node falls through to               *)
(* `return self.code'.                                                     *)
TACGenerator_returns_code(g) == Gen(g, g.code)

TACGenerator_generate(g, node) ==
    CASE node.node = "ProgramNode" ->
           TACGenerator_returns_code(TACGenerator_generate_program(g, node))
      [] node.node = "AssignmentNode" ->
           TACGenerator_generate_assignment(g, node)
      [] node.node = "BinOpNode"   -> TACGenerator_generate_binop(g, node)
      [] node.node = "UnaryOpNode" -> TACGenerator_generate_unary(g, node)
      [] node.node = "VarNode"     -> Gen(g, node.var_name)
      [] node.node = "NumNode" ->
           LET t == TACGenerator_new_temp(g)
           IN  Gen(TACGenerator_append(t.generator,
                       t.value \o ASSIGNS \o str_number(node.value)),
                   t.value)
      [] node.node = "BooleanNode" ->
           LET t == TACGenerator_new_temp(g)
           IN  Gen(TACGenerator_append(t.generator,
                       t.value \o ASSIGNS
                           \o (IF node.value THEN <<"1">> ELSE <<"0">>)),
                   t.value)
      [] node.node = "IfNode" ->
           TACGenerator_returns_code(TACGenerator_generate_if(g, node))
      [] node.node = "WhileNode" ->
           TACGenerator_returns_code(TACGenerator_generate_while(g, node))
      [] node.node = "ReadNode" ->
           TACGenerator_returns_code(TACGenerator_generate_read(g, node))
      [] node.node = "WriteNode" ->
           TACGenerator_returns_code(TACGenerator_generate_write(g, node))
      [] OTHER -> TACGenerator_returns_code(g)

TACGenerator_get_code(g) == g.code

-----------------------------------------------------------------------------
(* Source texts.  The three programs the repository itself compiles, kept  *)
(* character by character; the families below are written word by word,   *)
(* one blank between two words.                                            *)

(* compiler.py 97-109: the built-in example of main(). *)
example_code ==
    <<"p","r","o","g","r","a","m"," ","e","x","a","m","p","l","e",";","\n",
      "v","a","r","\n"," "," ","x",","," ","y",":"," ","i","n","t","e","g",
      "e","r",";","\n"," "," ","m","a","x",":"," ","i","n","t","e","g","e",
      "r",";","\n","b","e","g","i","n","\n"," "," ","r","e","a","d","(","x",
      ")",";","\n"," "," ","r","e","a","d","(","y",")",";","\n"," "," ","i",
      "f"," ","x"," ",">"," ","y"," ","t","h","e","n","\n"," "," "," "," ",
      "m","a","x"," ",":","="," ","x","\n"," "," ","e","l","s","e","\n"," ",
      " "," "," ","m","a","x"," ",":","="," ","y",";","\n"," "," ","w","r",
      "i","t","e","(","m","a","x",")",";","\n","e","n","d",".">>

(* tests/test_parser.py 12-20: the program of test_simple_program. *)
test_simple_program_code ==
    <<"\n","p","r","o","g","r","a","m"," ","t","e","s","t",";","\n","v","a",
      "r","\n"," "," ","x",":"," ","i","n","t","e","g","e","r",";","\n","b",
      "e","g","i","n","\n"," "," ","x"," ",":","="," ","1","0",";","\n"," ",
      " ","w","r","i","t","e","(","x",")",";","\n","e","n","d",".","\n">>

(* tests/test_parser.py 33-41: the program of test_if_statement. *)
test_if_statement_code ==
    <<"\n","p","r","o","g","r","a","m"," ","t","e","s","t",";","\n","v","a",
      "r","\n"," "," ","x",":"," ","i","n","t","e","g","e","r",";","\n","b",
      "e","g","i","n","\n"," "," ","i","f"," ","x"," ",">"," ","5"," ","t",
      "h","e","n","\n"," "," "," "," ","w","r","i","t","e","(","x",")",";",
      "\n"," "," ","e","n","d",";","\n","e","n","d",".","\n">>

(* A keyword as the Lexer's table spells it (BOOLEAN_LIT: `true'). *)
kw(type) ==
    CHOOSE w \in DOMAIN keywords :
        keywords[w] = type /\ w # <<"f","a","l","s","e">>

RECURSIVE Text(_)
Text(words) ==
    IF words = <<>> THEN <<>>
    ELSE IF Len(words) = 1 THEN words[1]
    ELSE words[1] \o <<" ">> \o Text(Tail(words))

(* The words of `id, id, ... : type ;'. *)
RECURSIVE DeclarationWords(_, _)
DeclarationWords(ids, type) ==
    IF Len(ids) = 1 THEN <<ids[1], <<":">>, kw(type), <<";">>>>
    ELSE <<ids[1], <<",">>>> \o DeclarationWords(Tail(ids), type)

(* `program name ; [var declarations] begin statements end .' *)
ProgramText(name, declarations, statements) ==
    Text(<<kw("PROGRAM"), name, <<";">>>>
         \o (IF declarations = <<>> THEN <<>> ELSE <<kw("VAR")>> \o declarations)
         \o <<kw("BEGIN")>> \o statements \o <<kw("END"), <<".">>>>)

(* How many identifiers one declaration of the family lists at most. *)
MaxIds == 2

(* Declaration sections of up to two declarations over the names x and y,  *)
(* with every repetition of a name that this allows.                        *)
Declarations ==
    {DeclarationWords(ids, type) :
        ids \in UNION {[1..n -> {<<"x">>, <<"y">>}] : n \in 1..MaxIds},
        type \in {"INTEGER", "BOOLEAN"}}

DeclarationPrograms ==
    {ProgramText(<<"p">>, section, statement) :
        section \in {<<>>} \cup Declarations
                    \cup {d1 \o d2 : d1 \in Declarations, d2 \in Declarations},
        statement \in {<<kw("WRITE"), <<"(">>, <<"1">>, <<")">>>>,
                       <<<<"x">>, <<":", "=">>, <<"1">>>>,
                       <<kw("READ"), <<"(">>, <<"y">>, <<")">>>>}}

(* Programs that name the identifier u, declared nowhere, as a factor. *)
UndeclaredFactorPrograms ==
    {ProgramText(<<"p">>, DeclarationWords(<<<<"x">>>>, "INTEGER"), statement) :
        statement \in
          {<<<<"x">>, <<":", "=">>, <<"u">>>>,
           <<<<"v">>, <<":", "=">>, <<"u">>>>,
           <<<<"x">>, <<":", "=">>, <<"1">>, <<"+">>, <<"u">>>>,
           <<<<"x">>, <<":", "=">>, <<"(">>, <<"u">>, <<")">>>>,
           <<kw("IF"), <<"u">>, <<">">>, <<"1">>, kw("THEN"),
             <<"x">>, <<":", "=">>, <<"1">>>>,
           <<kw("IF"), <<"x">>, <<">">>, <<"u">>, kw("THEN"),
             <<"x">>, <<":", "=">>, <<"1">>>>,
           <<kw("WHILE"), <<"u">>, <<"<">>, <<"1">>, kw("DO"),
             <<"x">>, <<":", "=">>, <<"1">>>>,
           <<kw("WRITE"), <<"(">>, <<"u">>, <<")">>>>,
           <<kw("WRITE"), <<"(">>, <<"x">>, <<"*">>, <<"u">>, <<")">>>>,
           <<<<"x">>, <<":", "=">>, <<"1">>, <<";">>,
             kw("WRITE"), <<"(">>, kw("NOT"), <<"u">>, <<")">>>>}}

(* Programs over i: integer, r: real, b: boolean.  An operand is written   *)
(* with the type its declaration or its literal form gives it.             *)
TypedDeclarations ==
    DeclarationWords(<<<<"i">>>>, "INTEGER")
        \o DeclarationWords(<<<<"r">>>>, "REAL")
        \o DeclarationWords(<<<<"b">>>>, "BOOLEAN")

Operands ==
    (<<"i">> :> "integer") @@ (<<"1">> :> "integer") @@
    (<<"r">> :> "real") @@ (<<"1", ".", "5">> :> "real") @@
    (<<"b">> :> "boolean") @@ (kw("BOOLEAN_LIT") :> "boolean")

(* `b := left op right' for every pair of operands and + - * /. *)
ArithmeticProgram ==
    [left \in DOMAIN Operands, op \in {"+", "-", "*", "/"},
     right \in DOMAIN Operands |->
        ProgramText(<<"p">>, TypedDeclarations,
                    <<<<"b">>, <<":", "=">>, left, <<op>>, right>>)]

(* Expressions with the type the language gives them: operands, one        *)
(* arithmetic, relational or logical operation, a negation; a keyword      *)
(* operator in lower and in upper case.                                    *)
Expressions ==
    [expression \in {<<operand>> : operand \in DOMAIN Operands} |->
        Operands[expression[1]]]
    @@ (<<<<"i">>, <<"+">>, <<"1">>>> :> "integer")
    @@ (<<<<"i">>, <<"*">>, <<"1", ".", "5">>>> :> "real")
    @@ (<<<<"i">>, <<">">>, <<"1">>>> :> "boolean")
    @@ (<<<<"r">>, <<"<", "=">>, <<"i">>>> :> "boolean")
    @@ (<<<<"b">>, <<"=">>, kw("BOOLEAN_LIT")>> :> "boolean")
    @@ (<<kw("BOOLEAN_LIT"), kw("AND"), <<"f","a","l","s","e">>>> :> "boolean")
    @@ (<<kw("BOOLEAN_LIT"), upper(kw("AND")), <<"f","a","l","s","e">>>>
            :> "boolean")
    @@ (<<<<"b">>, kw("OR"), <<"b">>>> :> "boolean")
    @@ (<<kw("NOT"), <<"b">>>> :> "boolean")
    @@ (<<upper(kw("NOT")), <<"b">>>> :> "boolean")

(* `target := expression' for every variable and every expression. *)
AssignmentProgram ==
    [target \in {<<"i">>, <<"r">>, <<"b">>},
     expression \in DOMAIN Expressions |->
        ProgramText(<<"p">>, TypedDeclarations,
                    <<target, <<":", "=">>>> \o expression)]

(* Numerals over the digits 0 and 7: up to MaxDigits digits, and two such  *)
(* runs around one `.'.                                                     *)
MaxDigits == 2

IntegerNumerals ==
    {<<>> \o digits :
        digits \in UNION {[1..n -> {"0", "7"}] : n \in 1..MaxDigits}}

RealNumerals ==
    {whole \o <<".">> \o fraction :
        whole \in IntegerNumerals, fraction \in IntegerNumerals}

(* `b := numeral', b boolean: the assignment check reports the type of the  *)
(* literal.                                                                 *)
NumeralProgram ==
    [numeral \in IntegerNumerals \cup RealNumerals |->
        ProgramText(<<"p">>, DeclarationWords(<<<<"b">>>>, "BOOLEAN"),
                    <<<<"b">>, <<":", "=">>, numeral>>)]

(* Texts with the character @, which no token starts: alone, after a       *)
(* syntax error, after an undeclared name, in a correct program, after     *)
(* the final `.'; and once inside a comment, where it is skipped.          *)
IllegalCharacterPrograms ==
    {<<"@">>,
     ProgramText(<<"p">>, <<>>, <<<<"1">>, <<"@">>>>),
     ProgramText(<<"p">>, <<>>, <<<<"u">>, <<":", "=">>, <<"1">>, <<"@">>>>),
     ProgramText(<<"p">>, DeclarationWords(<<<<"x">>>>, "INTEGER"),
                 <<<<"x">>, <<":", "=">>, <<"1">>, <<"@">>>>),
     ProgramText(<<"p">>, <<>>, <<kw("WRITE"), <<"(">>, <<"1">>, <<")">>>>)
         \o <<" ", "@">>,
     <<"{", " ", "@", "\n">>
         \o ProgramText(<<"p">>, <<>>, <<kw("WRITE"), <<"(">>, <<"1">>, <<")">>>>)}

(* Further shapes: an empty body, a missing `.', tokens after the end, a   *)
(* block, an else branch, a loop.                                           *)
OtherPrograms ==
    {ProgramText(<<"p">>, <<>>, <<>>),
     Text(<<kw("PROGRAM"), <<"p">>, <<";">>, kw("BEGIN"), kw("END")>>),
     ProgramText(<<"p">>, <<>>, <<>>) \o <<" ", "x">>,
     ProgramText(<<"p">>, DeclarationWords(<<<<"x">>>>, "INTEGER"),
                 <<kw("WHILE"), <<"x">>, <<"<">>, <<"3">>, kw("DO"), kw("BEGIN"),
                   <<"x">>, <<":", "=">>, <<"x">>, <<"+">>, <<"1">>, kw("END")>>),
     ProgramText(<<"p">>, DeclarationWords(<<<<"x">>>>, "INTEGER"),
                 <<kw("IF"), <<"x">>, <<"=">>, <<"0">>, kw("THEN"),
                   <<"x">>, <<":", "=">>, <<"1">>, kw("ELSE"),
                   kw("WRITE"), <<"(">>, <<"x">>, <<")">>>>)}

(* Statements with control flow over x: integer and b: boolean: an if      *)
(* without else (on a comparison, on a variable, on a block, around another *)
(* if), an if with else, loops, and an assignment, a write and a read.      *)
ControlStatements ==
    {<<kw("IF"), <<"x">>, <<">">>, <<"0">>, kw("THEN"),
       <<"x">>, <<":", "=">>, <<"1">>>>,
     <<kw("IF"), <<"b">>, kw("THEN"), kw("WRITE"), <<"(">>, <<"x">>, <<")">>>>,
     <<kw("IF"), <<"b">>, kw("THEN"), kw("BEGIN"), kw("READ"), <<"(">>, <<"x">>,
       <<")">>, <<";">>, <<"x">>, <<":", "=">>, <<"x">>, <<"+">>, <<"1">>,
       kw("END")>>,
     <<kw("IF"), <<"b">>, kw("THEN"), kw("IF"), <<"x">>, <<"<">>, <<"2">>,
       kw("THEN"), <<"b">>, <<":", "=">>, kw("BOOLEAN_LIT")>>,
     <<kw("IF"), <<"x">>, <<"=">>, <<"0">>, kw("THEN"),
       <<"x">>, <<":", "=">>, <<"1">>, kw("ELSE"),
       kw("WRITE"), <<"(">>, <<"x">>, <<")">>>>,
     <<kw("WHILE"), <<"x">>, <<"<">>, <<"3">>, kw("DO"),
       <<"x">>, <<":", "=">>, <<"x">>, <<"+">>, <<"1">>>>,
     <<kw("WHILE"), <<"b">>, kw("DO"), kw("IF"), <<"x">>, <<">">>, <<"1">>,
       kw("THEN"), <<"b">>, <<":", "=">>, kw("BOOLEAN_LIT")>>,
     <<<<"x">>, <<":", "=">>, <<"2">>>>,
     <<kw("WRITE"), <<"(">>, <<"x">>, <<"*">>, <<"2">>, <<")">>>>,
     <<kw("READ"), <<"(">>, <<"x">>, <<")">>>>}

ControlDeclarations ==
    DeclarationWords(<<<<"x">>>>, "INTEGER")
        \o DeclarationWords(<<<<"b">>>>, "BOOLEAN")

(* Bodies of one statement and of two statements. *)
ControlPrograms ==
    {ProgramText(<<"c">>, ControlDeclarations, s) : s \in ControlStatements}
    \cup {ProgramText(<<"c">>, ControlDeclarations, s1 \o <<<<";">>>> \o s2) :
              s1 \in ControlStatements, s2 \in ControlStatements}

(* Programs on a variable with the name of the first temporary. *)
TemporaryNamePrograms ==
    {ProgramText(<<"p">>, DeclarationWords(<<<<"t", "0">>>>, "INTEGER"), s) :
        s \in {<<<<"t", "0">>, <<":", "=">>, <<"1">>>>,
               <<kw("READ"), <<"(">>, <<"t", "0">>, <<")">>, <<";">>,
                 <<"t", "0">>, <<":", "=">>, <<"t", "0">>, <<"+">>, <<"1">>>>}}

(* Programs that assign to or read into the identifier v, declared         *)
(* nowhere; behind v the statement is well formed, or names the undeclared  *)
(* u, or breaks the grammar.                                                *)
UndeclaredTargetPrograms ==
    {ProgramText(<<"p">>, DeclarationWords(<<<<"x">>>>, "INTEGER"), statement) :
        statement \in
          {<<<<"v">>, <<":", "=">>, <<"1">>>>,
           <<<<"v">>, <<":", "=">>, <<"u">>>>,
           <<<<"v">>, <<":", "=">>, <<")">>>>,
           <<<<"v">>, <<":", "=">>, <<"x">>, <<"+">>>>,
           <<<<"v">>, <<":", "=">>, <<"x">>, <<";">>,
             <<"u">>, <<":", "=">>, <<"1">>>>,
           <<kw("READ"), <<"(">>, <<"v">>, <<")">>>>,
           <<kw("READ"), <<"(">>, <<"v">>, <<";">>>>}}

(* What compile is called with. *)
Sources ==
    {example_code, test_simple_program_code, test_if_statement_code}
    \cup DeclarationPrograms \cup UndeclaredFactorPrograms
    \cup Range(ArithmeticProgram) \cup Range(AssignmentProgram)
    \cup Range(NumeralProgram) \cup IllegalCharacterPrograms
    \cup OtherPrograms \cup ControlPrograms \cup TemporaryNamePrograms
    \cup UndeclaredTargetPrograms

-----------------------------------------------------------------------------
(* compiler.py: one Compiler object and one call of compile.                *)

(* The loop of lines 28-33 as it would be with the `break' outside the if:  *)
(* it ends after the first token.                                           *)
Compiler_scan_first_token(lx, toks) ==
    LET r == Lexer_get_next_token(lx)
    IN  IF r.error # None
        THEN [lexer |-> r.lexer, tokens |-> toks, error |-> r.error]
        ELSE [lexer |-> r.lexer, tokens |-> Append(toks, r.token),
              error |-> None]

(* compile, lines 28-33: `while True: token = self.lexer.get_next_token();  *)
(* tokens.append(token); if token.type == EOF: break'.                      *)
RECURSIVE Compiler_scan(_, _)
Compiler_scan(lx, toks) ==
    LET r == Lexer_get_next_token(lx)
    IN  IF r.error # None
        THEN [lexer |-> r.lexer, tokens |-> toks, error |-> r.error]
        ELSE IF r.token.type = "EOF"
        THEN [lexer |-> r.lexer, tokens |-> Append(toks, r.token),
              error |-> None]
        ELSE Compiler_scan(r.lexer, Append(toks, r.token))

(* Compiler.__init__ *)
Init ==
    /\ source = <<>>
    /\ lexer = None
    /\ parser = None
    /\ semantic_analyzer = SemanticAnalyzer
    /\ tac_generator = TACGenerator
    /\ tokens = <<>>
    /\ ast = None
    /\ pc = "idle"
    /\ stages = <<>>
    /\ errors = <<>>
    /\ result = "None"
    /\ previous = None

(* compile(source_code) is called. *)
Compile_call ==
    /\ pc = "idle"
    /\ \E source_code \in Sources : source' = source_code
    /\ pc' = "scan"
    /\ UNCHANGED <<lexer, tokens, parser, ast, semantic_analyzer,
                   tac_generator, stages, errors, result, previous>>

(* 1. LEXICAL ANALYSIS, lines 22-36; an exception ends compile in the      *)
(* handler of lines 75-77.                                                  *)
Compile_scan ==
    /\ pc = "scan"
    /\ \E r \in {Compiler_scan(Lexer(source), <<>>)} :
           /\ lexer' = r.lexer
           /\ tokens' = r.tokens
           /\ IF r.error # None
              THEN /\ errors' = Append(errors, r.error)
                   /\ result' = "False"
                   /\ pc' = "done"
              ELSE /\ pc' = "parse"
                   /\ UNCHANGED <<errors, result>>
    /\ stages' = Append(stages, "scan")
    /\ UNCHANGED <<source, parser, ast, semantic_analyzer, tac_generator,
                   previous>>

(* 2. SYNTAX ANALYSIS, lines 38-56: a new Lexer, the Parser on it, parse(). *)
Compile_parse ==
    /\ pc = "parse"
    /\ \E n \in {Parser(Lexer(source))} :
           IF n.error # None
           THEN /\ lexer' = Lexer_get_next_token(Lexer(source)).lexer
                /\ errors' = Append(errors, n.error)
                /\ result' = "False"
                /\ pc' = "done"
                /\ UNCHANGED <<parser, ast>>
           ELSE \E r \in {Parser_call(n.parser, "parse", <<>>)} :
                    /\ parser' = r.parser
                    /\ lexer' = r.parser.lexer
                    /\ IF r.error # None
                       THEN /\ errors' = Append(errors, r.error)
                            /\ result' = "False"
                            /\ pc' = "done"
                            /\ UNCHANGED ast
                       ELSE /\ ast' = r.value
                            /\ pc' = "analyze"
                            /\ UNCHANGED <<errors, result>>
    /\ stages' = Append(stages, "parse")
    /\ UNCHANGED <<source, tokens, semantic_analyzer, tac_generator,
                   previous>>

(* Compile_analyze as it would be if the exception of analyze were caught   *)
(* inside the stage and compile went on to generate code.                   *)
Compile_analyze_and_go_on ==
    /\ pc = "analyze"
    /\ \E r \in {SemanticAnalyzer_analyze(semantic_analyzer, ast)} :
           /\ semantic_analyzer' = r.analyzer
           /\ errors' = IF r.error # None THEN Append(errors, r.error) ELSE errors
    /\ pc' = "generate"
    /\ stages' = Append(stages, "analyze")
    /\ UNCHANGED <<source, lexer, tokens, parser, ast, tac_generator, result,
                   previous>>

(* 3. SEMANTIC ANALYSIS, lines 58-62, on the analyzer made by __init__. *)
Compile_analyze ==
    /\ pc = "analyze"
    /\ \E r \in {SemanticAnalyzer_analyze(semantic_analyzer, ast)} :
           /\ semantic_analyzer' = r.analyzer
           /\ IF r.error # None
              THEN /\ errors' = Append(errors, r.error)
                   /\ result' = "False"
                   /\ pc' = "done"
              ELSE /\ pc' = "generate"
                   /\ UNCHANGED <<errors, result>>
    /\ stages' = Append(stages, "analyze")
    /\ UNCHANGED <<source, lexer, tokens, parser, ast, tac_generator,
                   previous>>

(* Compile_generate as it would be without line 67: the generator that is  *)
(* there generates.                                                         *)
Compile_generate_without_reset ==
    /\ pc = "generate"
    /\ tac_generator' = TACGenerator_generate(tac_generator, ast).generator
    /\ stages' = Append(stages, "generate")
    /\ result' = "True"
    /\ pc' = "done"
    /\ UNCHANGED <<source, lexer, tokens, parser, ast, semantic_analyzer,
                   errors, previous>>

(* 4. INTERMEDIATE CODE GENERATION, lines 64-73, and `return True'. *)
Compile_generate ==
    /\ pc = "generate"
    /\ tac_generator' = TACGenerator_generate(TACGenerator, ast).generator
    /\ stages' = Append(stages, "generate")
    /\ result' = "True"
    /\ pc' = "done"
    /\ UNCHANGED <<source, lexer, tokens, parser, ast, semantic_analyzer,
                   errors, previous>>

Next ==
    \/ Compile_call
    \/ Compile_scan
    \/ Compile_parse
    \/ Compile_analyze
    \/ Compile_generate

Spec == Init /\ [][Next]_vars

-----------------------------------------------------------------------------
(* One Compiler object whose compile is called twice: the objects __init__  *)
(* made and the attributes the first call set are there in the second.      *)

ReuseSources ==
    {ProgramText(<<"p">>, DeclarationWords(<<<<"x">>>>, "INTEGER"),
                 <<<<"x">>, <<":", "=">>, <<"1">>>>),
     ProgramText(<<"p">>, DeclarationWords(<<<<"y">>>>, "BOOLEAN"),
                 <<<<"y">>, <<":", "=">>, kw("BOOLEAN_LIT")>>),
     ProgramText(<<"q">>, DeclarationWords(<<<<"x">>>>, "BOOLEAN"),
                 <<<<"x">>, <<":", "=">>, kw("BOOLEAN_LIT")>>),
     ProgramText(<<"q">>, DeclarationWords(<<<<"x">>, <<"y">>>>, "INTEGER"),
                 <<kw("IF"), <<"x">>, <<">">>, <<"y">>, kw("THEN"),
                   <<"x">>, <<":", "=">>, <<"y">>, <<"+">>, <<"1">>>>),
     ProgramText(<<"r">>, DeclarationWords(<<<<"x">>>>, "INTEGER"),
                 <<kw("WHILE"), <<"x">>, <<"<">>, <<"3">>, kw("DO"),
                   <<"x">>, <<":", "=">>, <<"x">>, <<"+">>, <<"1">>>>),
     ProgramText(<<"r">>, <<>>, <<kw("WRITE"), <<"(">>, <<"1">>, <<")">>>>),
     ProgramText(<<"p">>, DeclarationWords(<<<<"x">>>>, "INTEGER"),
                 <<<<"x">>, <<":", "=">>, kw("BOOLEAN_LIT")>>),
     ProgramText(<<"p">>, <<>>, <<<<"x">>, <<":", "=">>, <<"1">>>>),
     ProgramText(<<"p">>, <<>>, <<kw("WRITE"), <<"(">>, <<"@">>, <<")">>>>)}

(* The first call compile(source_code), with one of these texts. *)
Compile_call_first ==
    /\ pc = "idle"
    /\ \E source_code \in ReuseSources : source' = source_code
    /\ pc' = "scan"
    /\ UNCHANGED <<lexer, tokens, parser, ast, semantic_analyzer,
                   tac_generator, stages, errors, result, previous>>

(* compile(source_code) is called again after it returned: its local        *)
(* variables are new, the attributes of the Compiler are as the first call  *)
(* left them.  `previous' keeps what the first call was given, what it      *)
(* returned and the code it printed.                                        *)
Compile_again ==
    /\ pc = "done"
    /\ previous = None
    /\ \E source_code \in ReuseSources : source' = source_code
    /\ previous' = [source |-> source, result |-> result,
                    code |-> TACGenerator_get_code(tac_generator)]
    /\ pc' = "scan"
    /\ tokens' = <<>>
    /\ ast' = None
    /\ stages' = <<>>
    /\ errors' = <<>>
    /\ result' = "None"
    /\ UNCHANGED <<lexer, parser, semantic_analyzer, tac_generator>>

ReuseNext ==
    \/ Compile_call_first
    \/ Compile_again
    \/ Compile_scan
    \/ Compile_parse
    \/ Compile_analyze
    \/ Compile_generate

SpecReuse == Init /\ [][ReuseNext]_vars

-----------------------------------------------------------------------------
(* A Lexer used on its own, as tests/test_lexer.py uses it: one object on a *)
(* text, and get_next_token called on it again and again.                   *)

MaxTextLen == 3
MaxCalls == 3

(* A word with the letters at the positions of `where' in upper case. *)
Capitalized(word, where) ==
    [i \in 1..Len(word) |-> IF i \in where THEN upper_char(word[i]) ELSE word[i]]

(* Every spelling of every keyword of the table. *)
KeywordSpellings ==
    UNION {{Capitalized(word, where) : where \in SUBSET (1..Len(word))} :
           word \in DOMAIN keywords}

TextAlphabet == {"i", "F", "_", "1", ".", " ", "{", "\n", "@"}

RECURSIVE TextsUpTo(_)
TextsUpTo(n) ==
    IF n = 0 THEN {<<>>}
    ELSE LET shorter == TextsUpTo(n - 1)
         IN  shorter \cup {Append(text, c) : text \in shorter, c \in TextAlphabet}

LexerSources == KeywordSpellings \cup TextsUpTo(MaxTextLen)

(* lexer = Lexer(text) *)
LexerInit ==
    /\ source \in LexerSources
    /\ lexer = Lexer(source)
    /\ tokens = <<>>
    /\ errors = <<>>
    /\ pc = "lexer"
    /\ parser = None
    /\ ast = None
    /\ semantic_analyzer = None
    /\ tac_generator = None
    /\ stages = <<>>
    /\ result = "None"
    /\ previous = None

(* token = lexer.get_next_token(): the token is returned or the exception  *)
(* is raised; the object stays usable either way.                           *)
GetNextToken ==
    /\ pc = "lexer"
    /\ lexer.calls < MaxCalls
    /\ \E r \in {Lexer_get_next_token(lexer)} :
           /\ lexer' = r.lexer
           /\ IF r.error # None
              THEN errors' = Append(errors, r.error) /\ UNCHANGED tokens
              ELSE tokens' = Append(tokens, r.token) /\ UNCHANGED errors
    /\ UNCHANGED <<source, parser, ast, semantic_analyzer, tac_generator, pc,
                   stages, result, previous>>

LexerNext == GetNextToken

SpecLexer == LexerInit /\ [][LexerNext]_vars

-----------------------------------------------------------------------------
(* A TACGenerator used on its own: one object, and generate, new_temp and   *)
(* new_label called on it again and again.  `stages' is the history of the  *)
(* calls, `ast' the node of the last generate, `result' the value the last  *)
(* call returned.                                                           *)

(* Parser(Lexer(text)).parse() of a text that parses. *)
Parsed(text) == Parser_call(Parser(Lexer(text)).parser, "parse", <<>>).value

(* The programs with one statement. *)
GeneratorSources ==
    {ProgramText(<<"c">>, ControlDeclarations, s) : s \in ControlStatements}

(* The nodes generate is handed: programs, and statements of programs. *)
GeneratorNodes ==
    UNION {{Parsed(s)} \cup Range(Parsed(s).statements) : s \in GeneratorSources}

(* How many calls one TACGenerator receives. *)
MaxSteps == 2

GeneratorInit ==
    /\ source = <<>>
    /\ lexer = None
    /\ tokens = <<>>
    /\ parser = None
    /\ ast = None
    /\ semantic_analyzer = None
    /\ tac_generator = TACGenerator
    /\ pc = "generator"
    /\ stages = <<>>
    /\ errors = <<>>
    /\ result = "None"
    /\ previous = None

(* code = tac_generator.generate(node) *)
Generator_generate ==
    /\ pc = "generator"
    /\ Len(stages) < MaxSteps
    /\ \E node \in GeneratorNodes :
           \E r \in {TACGenerator_generate(tac_generator, node)} :
               /\ tac_generator' = r.generator
               /\ result' = r.value
               /\ ast' = node
    /\ stages' = Append(stages, "generate")
    /\ UNCHANGED <<source, lexer, tokens, parser, semantic_analyzer, pc, errors,
                   previous>>

(* name = tac_generator.new_temp() *)
Generator_new_temp ==
    /\ pc = "generator"
    /\ Len(stages) < MaxSteps
    /\ \E r \in {TACGenerator_new_temp(tac_generator)} :
           /\ tac_generator' = r.generator
           /\ result' = r.value
    /\ stages' = Append(stages, "new_temp")
    /\ UNCHANGED <<source, lexer, tokens, parser, ast, semantic_analyzer, pc,
                   errors, previous>>

(* name = tac_generator.new_label() *)
Generator_new_label ==
    /\ pc = "generator"
    /\ Len(stages) < MaxSteps
    /\ \E r \in {TACGenerator_new_label(tac_generator)} :
           /\ tac_generator' = r.generator
           /\ result' = r.value
    /\ stages' = Append(stages, "new_label")
    /\ UNCHANGED <<source, lexer, tokens, parser, ast, semantic_analyzer, pc,
                   errors, previous>>

GeneratorNext ==
    \/ Generator_generate
    \/ Generator_new_temp
    \/ Generator_new_label

SpecGenerator == GeneratorInit /\ [][GeneratorNext]_vars

-----------------------------------------------------------------------------
(* Properties of compile and of the stages.                                 *)

StageOrder == <<"scan", "parse", "analyze", "generate">>

IsPrefix(s, t) == Len(s) <= Len(t) /\ \A i \in 1..Len(s) : s[i] = t[i]

(* C1: the stages of compile are started in the order scan, parse,          *)
(* analyze, generate, and a stage that fails is the last one started: after *)
(* a lexical error no Parser exists, after a parse error the analyzer has   *)
(* not been used, after an analysis error the TACGenerator has generated    *)
(* nothing.  A failed run reports exactly one error and returns False; True *)
(* is returned only when all four stages completed.                         *)
C1_StagesInOrderFirstErrorEnds ==
    /\ IsPrefix(stages, StageOrder)
    /\ Len(errors) <= 1
    /\ errors # <<>> =>
          /\ pc = "done"
          /\ result = "False"
          /\ stages # <<>>
          /\ Last(stages) = "scan" =>
                 /\ errors[1].kind = "Lexical error"
                 /\ parser = None
                 /\ ast = None
          /\ Last(stages) = "parse" =>
                 /\ errors[1].kind = "Parsing failed"
                 /\ ast = None
                 /\ semantic_analyzer = SemanticAnalyzer
          /\ Last(stages) = "analyze" => tac_generator = TACGenerator
          /\ Last(stages) # "generate"
    /\ result = "False" => Len(errors) = 1
    /\ result = "True" <=> (pc = "done" /\ stages = StageOrder /\ errors = <<>>)
    /\ pc = "done" <=> result # "None"

(* An analysis that failed: three stages started, one error, False. *)
C1_AnalysisFailed ==
    /\ pc = "done"
    /\ stages = <<"scan", "parse", "analyze">>
    /\ Len(errors) = 1
    /\ result = "False"
    /\ parser # None
    /\ ast # None

(* The character at i of the text is one no token starts with, and it is    *)
(* not inside a comment (no `{' before it on its line).                     *)
IllegalAt(text, i) ==
    /\ text[i] = "@"
    /\ ~\E j \in 1..(i - 1) :
            text[j] = "{" /\ \A k \in j..(i - 1) : text[k] # "\n"

HasIllegalCharacter(text) == \E i \in 1..Len(text) : IllegalAt(text, i)

(* C2, as the claim states it: a Parser built on a Lexer calls              *)
(* get_next_token no more once it has taken its first grammar decision, so  *)
(* the one call of the constructor is the only one on the parser's Lexer.   *)
C2_ParserReadsNothingWhileParsing ==
    parser # None => parser.lexer.calls <= 1

(* C2, amended: in compile the scan stage has produced the whole token      *)
(* stream, up to and including the one EOF token, before the Parser is      *)
(* constructed, and a source with an illegal character ends with the        *)
(* lexical error alone and without a Parser, whatever precedes the          *)
(* character; the Parser then reads the text again through its own Lexer,   *)
(* one token per eat, never beyond the stream and all of it when it         *)
(* succeeds.                                                                *)
C2_ScanCompleteBeforeParser ==
    /\ (pc = "parse" \/ parser # None) =>
          /\ tokens # <<>>
          /\ Last(tokens).type = "EOF"
          /\ \A i \in 1..(Len(tokens) - 1) : tokens[i].type # "EOF"
    /\ pc = "parse" => parser = None
    /\ parser # None =>
          /\ parser.lexer.calls >= 1
          /\ parser.lexer.calls <= Len(tokens)
    /\ ast # None => parser.lexer.calls = Len(tokens)
    /\ (pc = "done" /\ HasIllegalCharacter(source)) =>
          /\ Len(errors) = 1
          /\ errors[1].kind = "Lexical error"
          /\ errors[1].char = "@"
          /\ parser = None

(* `begin 1 @': the syntax error at 1 comes first in the text, the lexical  *)
(* error is the one reported.                                               *)
C2_LexicalErrorAfterSyntaxError ==
    /\ pc = "done"
    /\ source = ProgramText(<<"p">>, <<>>, <<<<"1">>, <<"@">>>>)
    /\ Len(errors) = 1
    /\ errors[1].kind = "Lexical error"
    /\ parser = None

(* C3: once get_next_token has returned an EOF token, every later call on   *)
(* the same Lexer returns an EOF token again: no token of another kind      *)
(* follows an EOF token and no call made after it raises, for every text,   *)
(* the empty one and one that ends inside a comment included.               *)
C3_EndOfInputIsTerminal ==
    \A i \in 1..Len(tokens) :
        tokens[i].type = "EOF" =>
            /\ \A j \in i..Len(tokens) : tokens[j].type = "EOF"
            /\ errors = <<>>
            /\ lexer.calls = Len(tokens)

(* A text that ends inside a comment, asked for a token MaxCalls times. *)
C3_EndInsideComment ==
    /\ pc = "lexer"
    /\ source = <<"{", "i">>
    /\ Len(tokens) = MaxCalls
    /\ \A i \in 1..Len(tokens) : tokens[i].type = "EOF"

(* The keywords and their token kinds, as the claim lists them. *)
KeywordKind ==
    (<<"p","r","o","g","r","a","m">> :> "PROGRAM") @@
    (<<"v","a","r">> :> "VAR") @@
    (<<"b","e","g","i","n">> :> "BEGIN") @@
    (<<"e","n","d">> :> "END") @@
    (<<"i","f">> :> "IF") @@
    (<<"t","h","e","n">> :> "THEN") @@
    (<<"e","l","s","e">> :> "ELSE") @@
    (<<"w","h","i","l","e">> :> "WHILE") @@
    (<<"d","o">> :> "DO") @@
    (<<"r","e","a","d">> :> "READ") @@
    (<<"w","r","i","t","e">> :> "WRITE") @@
    (<<"i","n","t","e","g","e","r">> :> "INTEGER") @@
    (<<"r","e","a","l">> :> "REAL") @@
    (<<"b","o","o","l","e","a","n">> :> "BOOLEAN") @@
    (<<"a","n","d">> :> "AND") @@
    (<<"o","r">> :> "OR") @@
    (<<"n","o","t">> :> "NOT") @@
    (<<"t","r","u","e">> :> "BOOLEAN_LIT") @@
    (<<"f","a","l","s","e">> :> "BOOLEAN_LIT")

(* A text that is one identifier: a letter or `_', then letters, digits    *)
(* and `_'.                                                                 *)
IsWord(text) ==
    /\ text # <<>>
    /\ isalpha(text[1]) \/ text[1] = "_"
    /\ \A i \in 1..Len(text) : isalnum(text[i]) \/ text[i] = "_"

(* C4: a keyword written in any mixture of upper and lower case is returned *)
(* as a token of the keyword's own kind (BOOLEAN_LIT for true and false),   *)
(* never as ID; any other identifier text is returned as an ID token whose  *)
(* value is the text as written.                                            *)
C4_KeywordsInAnyCase ==
    (pc = "lexer" /\ IsWord(source) /\ lexer.calls >= 1) =>
        /\ errors = <<>>
        /\ tokens # <<>>
        /\ IF lower(source) \in DOMAIN KeywordKind
           THEN /\ tokens[1].type = KeywordKind[lower(source)]
                /\ tokens[1].type # "ID"
           ELSE /\ tokens[1].type = "ID"
                /\ tokens[1].value = source

(* wHiLe has been scanned. *)
C4_MixedCaseKeyword ==
    /\ pc = "lexer"
    /\ source = <<"w", "H", "i", "L", "e">>
    /\ tokens # <<>>
    /\ tokens[1].type = "WHILE"

NumberTokens(toks) == SelectSeq(toks, LAMBDA token : token.type = "NUMBER")

HasDot(numeral) == \E i \in 1..Len(numeral) : numeral[i] = "."

(* C5: a numeral without `.' is scanned as one NUMBER token with an integer *)
(* value and typed integer by the analyzer; a numeral with one `.' followed *)
(* by at least one digit is scanned as one NUMBER token with a real value   *)
(* and typed real.  The type is the one the analyzer reports when the       *)
(* numeral is assigned to the boolean variable b.                           *)
C5_NumeralTypes ==
    \A numeral \in DOMAIN NumeralProgram :
        source = NumeralProgram[numeral] =>
            /\ stages # <<>> =>
                  /\ Len(NumberTokens(tokens)) = 1
                  /\ NumberTokens(tokens)[1].value.kind
                         = IF HasDot(numeral) THEN "float" ELSE "int"
            /\ pc = "done" =>
                  /\ stages = <<"scan", "parse", "analyze">>
                  /\ errors =
                        <<[kind      |-> "Type error: Cannot assign",
                           expr_type |-> IF HasDot(numeral) THEN "real"
                                         ELSE "integer",
                           var_type  |-> "boolean",
                           var_name  |-> <<"b">>]>>

(* b := 7.0 has been analyzed: the literal is real. *)
C5_RealNumeralAnalyzed ==
    /\ pc = "done"
    /\ source = NumeralProgram[<<"7", ".", "0">>]
    /\ Len(errors) = 1
    /\ errors[1].kind = "Type error: Cannot assign"
    /\ errors[1].expr_type = "real"

(* Where the first token of a type is in a token list. *)
IndexOf(toks, type) ==
    CHOOSE i \in 1..Len(toks) :
        toks[i].type = type /\ \A j \in 1..(i - 1) : toks[j].type # type

Identifiers(toks) ==
    LET ids == SelectSeq(toks, LAMBDA token : token.type = "ID")
    IN  [i \in 1..Len(ids) |-> ids[i].value]

(* The names of the var section, in order, and the names of the body. *)
DeclaredIds(toks) == Identifiers(SubSeq(toks, 4, IndexOf(toks, "BEGIN") - 1))

UsedIds(toks) == Identifiers(SubSeq(toks, IndexOf(toks, "BEGIN") + 1, Len(toks)))

Repeats(ids, j) == \E i \in 1..(j - 1) : ids[i] = ids[j]

(* C6: when every name is declared exactly once and before it is used,     *)
(* parse() returns a ProgramNode whose name is the identifier of the        *)
(* program header; when a name is declared twice, in one id list or in two  *)
(* declarations, parsing fails with the duplicate-declaration error that    *)
(* names the repeated identifier, and there is no AST.                      *)
C6_DeclaredOnceOrRejected ==
    (source \in DeclarationPrograms /\ Len(stages) >= 2) =>
        LET declared == DeclaredIds(tokens)
            used     == UsedIds(tokens)
        IN  IF \E j \in 1..Len(declared) : Repeats(declared, j)
            THEN /\ pc = "done"
                 /\ stages = <<"scan", "parse">>
                 /\ ast = None
                 /\ Len(errors) = 1
                 /\ errors[1].kind = "Parsing failed"
                 /\ errors[1].cause.kind
                        = "Semantic error: Variable already declared"
                 /\ \E j \in 1..Len(declared) :
                        /\ Repeats(declared, j)
                        /\ \A k \in 1..(j - 1) : ~Repeats(declared, k)
                        /\ errors[1].cause.name = declared[j]
            ELSE (\A i \in 1..Len(used) : used[i] \in Range(declared)) =>
                    /\ ~(Last(stages) = "parse" /\ errors # <<>>)
                    /\ ast # None
                    /\ ast.node = "ProgramNode"
                    /\ ast.name = tokens[2].value
                    /\ ast.name = <<"p">>

(* x is declared in two declarations of the var section. *)
C6_DeclaredInTwoDeclarations ==
    /\ pc = "done"
    /\ source \in DeclarationPrograms
    /\ DeclaredIds(tokens) = <<<<"x">>, <<"x">>>>
    /\ Len(SelectSeq(tokens, LAMBDA token : token.type = "COLON")) = 2
    /\ Len(errors) = 1
    /\ errors[1].kind = "Parsing failed"
    /\ ast = None

(* C7: a program that names an undeclared identifier as a factor of an      *)
(* expression (the right-hand side of an assignment, the condition of an if *)
(* or a while, the argument of write) fails in parsing with the             *)
(* undeclared-variable error of that factor, and compile never invokes the  *)
(* analyzer for it.                                                         *)
C7_UndeclaredFactorFailsInParsing ==
    (source \in UndeclaredFactorPrograms /\ Len(stages) >= 2) =>
        /\ pc = "done"
        /\ stages = <<"scan", "parse">>
        /\ ast = None
        /\ semantic_analyzer = SemanticAnalyzer
        /\ Len(errors) = 1
        /\ errors[1].kind = "Parsing failed"
        /\ errors[1].cause = NotDeclared(<<"u">>, 1)
        /\ parser.current_token.type = "ID"
        /\ parser.current_token.value = <<"u">>

(* The undeclared u in the condition of a while. *)
C7_UndeclaredInWhileCondition ==
    /\ pc = "done"
    /\ source \in UndeclaredFactorPrograms
    /\ \E i \in 1..Len(tokens) : tokens[i].type = "WHILE"
    /\ Len(errors) = 1
    /\ errors[1].kind = "Parsing failed"
    /\ errors[1].cause.name = <<"u">>

(* C8: the parser accepts the program of test_if_statement, whose if has a  *)
(* one-statement then-branch followed by `;' and a closing `end;' before    *)
(* the final `end.', and parse() returns an AST for it.                     *)
C8_IfStatementProgramAccepted ==
    (source = test_if_statement_code /\ Len(stages) >= 2) =>
        /\ ast # None
        /\ ast.node = "ProgramNode"
        /\ ~(Last(stages) = "parse" /\ errors # <<>>)

NumericTypes == {"integer", "real"}

(* C9: when the type of the assigned expression and the type of the target *)
(* differ and are not both numeric (a boolean expression assigned to an     *)
(* integer variable, for one), parse() succeeds and analyze() fails with    *)
(* the type-mismatch error that names the expression type, the variable     *)
(* type and the variable; an integer expression assigned to a real          *)
(* variable, or a real one to an integer variable, is accepted.             *)
C9_AssignmentTypeMismatch ==
    \A target \in {<<"i">>, <<"r">>, <<"b">>}, expression \in DOMAIN Expressions :
        (source = AssignmentProgram[target, expression] /\ pc = "done") =>
            LET var_type  == Operands[target]
                expr_type == Expressions[expression]
            IN  /\ ast # None
                /\ (var_type # expr_type
                       /\ ~({var_type, expr_type} \subseteq NumericTypes)) =>
                      /\ stages = <<"scan", "parse", "analyze">>
                      /\ errors = <<[kind      |-> "Type error: Cannot assign",
                                     expr_type |-> expr_type,
                                     var_type  |-> var_type,
                                     var_name  |-> target]>>
                /\ (var_type # expr_type
                       /\ {var_type, expr_type} \subseteq NumericTypes) =>
                      errors = <<>>

(* C10: for + - * / on operands of the types integer and real the analyzer *)
(* gives real when at least one operand is real and integer when both are   *)
(* integer; when an operand is boolean the analysis fails with the          *)
(* incompatibility error that names both operand types and the operator.    *)
(* The result type is the one the analyzer reports when the expression is   *)
(* assigned to the boolean variable b.                                      *)
C10_ArithmeticResultTypes ==
    \A left \in DOMAIN Operands, op \in {"+", "-", "*", "/"},
       right \in DOMAIN Operands :
        (source = ArithmeticProgram[left, op, right] /\ pc = "done") =>
            /\ stages = <<"scan", "parse", "analyze">>
            /\ IF {Operands[left], Operands[right]} \subseteq NumericTypes
               THEN errors =
                      <<[kind      |-> "Type error: Cannot assign",
                         expr_type |-> IF "real" \in {Operands[left],
                                                      Operands[right]}
                                       THEN "real" ELSE "integer",
                         var_type  |-> "boolean",
                         var_name  |-> <<"b">>]>>
               ELSE errors =
                      <<[kind       |-> "Type error: Incompatible types for operator",
                         left_type  |-> Operands[left],
                         right_type |-> Operands[right],
                         op         |-> <<op>>]>>

(* i * 1.5 has been analyzed: real. *)
C10_IntegerTimesReal ==
    /\ pc = "done"
    /\ source = ArithmeticProgram[<<"i">>, "*", <<"1", ".", "5">>]
    /\ Len(errors) = 1
    /\ errors[1].kind = "Type error: Cannot assign"
    /\ errors[1].expr_type = "real"

-----------------------------------------------------------------------------
(* Properties of the TACGenerator.                                          *)

IfFalseInstruction(c, label) ==
    <<"I","F","_","F","A","L","S","E"," ">> \o c
        \o <<" ","G","O","T","O"," ">> \o label

LabelInstruction(label) == <<"L","A","B","E","L"," ">> \o label

GotoInstruction(label) == <<"G","O","T","O"," ">> \o label

(* The instructions a call appended: those of `after' behind `before'. *)
Added(before, after) ==
    SubSeq(after.code, Len(before.code) + 1, Len(after.code))

(* The step is a call generate(node) with a node of this kind. *)
Generates(kind) ==
    /\ stages' # stages
    /\ Last(stages') = "generate"
    /\ ast'.node = kind

(* The instructions of a statement list lowered after `g', for some state   *)
(* of the label counter.                                                    *)
LoweringsAfter(g, statements) ==
    {Added(h, TACGenerator_generate_all(h, statements)) :
        h \in {[g EXCEPT !.label_count = n] :
                  n \in g.label_count .. g.label_count + 2}}

(* C11: generate on an if without else appends exactly the instructions of  *)
(* the condition, one IF_FALSE c GOTO Lf on the condition's value c, the    *)
(* instructions of the then branch, and LABEL Lf with the same label:       *)
(* no GOTO and no second LABEL of its own.                                  *)
C11_IfWithoutElseLowering ==
    [][(Generates("IfNode") /\ ast'.else_branch = <<>>) =>
          LET c == TACGenerator_generate(tac_generator, ast'.condition)
          IN  \E Lf \in Range(tac_generator'.allocated) :
              \E then_code \in LoweringsAfter(c.generator, ast'.then_branch) :
                  tac_generator'.code =
                      c.generator.code \o <<IfFalseInstruction(c.value, Lf)>>
                          \o then_code \o <<LabelInstruction(Lf)>>]_vars

(* An if without else around another if, lowered by a generator that has    *)
(* code already.                                                            *)
C11_NestedIfLowered ==
    /\ pc = "generator"
    /\ stages = <<"generate", "generate">>
    /\ ast.node = "IfNode"
    /\ ast.else_branch = <<>>
    /\ ast.then_branch[1].node = "IfNode"
    /\ Len(tac_generator.code) > 4

(* C12: generate on a while appends exactly LABEL Ls, the instructions of   *)
(* the condition, IF_FALSE c GOTO Le on the condition's value c, the        *)
(* instructions of the body, GOTO Ls and LABEL Le, with Ls and Le two       *)
(* different labels: the condition is computed once, behind LABEL Ls and    *)
(* before the IF_FALSE.                                                     *)
C12_WhileLowering ==
    [][Generates("WhileNode") =>
          LET c == TACGenerator_generate(tac_generator, ast'.condition)
              condition_code == Added(tac_generator, c.generator)
          IN  \E Ls \in Range(tac_generator'.allocated) :
              \E Le \in Range(tac_generator'.allocated) \ {Ls} :
              \E body_code \in LoweringsAfter(c.generator, ast'.body) :
                  tac_generator'.code =
                      tac_generator.code \o <<LabelInstruction(Ls)>>
                          \o condition_code
                          \o <<IfFalseInstruction(c.value, Le)>>
                          \o body_code \o <<GotoInstruction(Ls)>>
                          \o <<LabelInstruction(Le)>>]_vars

(* A loop on a comparison lowered by a generator that has allocated a       *)
(* temporary and a label before.                                            *)
C12_LoopOnComparisonLowered ==
    /\ pc = "generator"
    /\ stages = <<"generate", "generate">>
    /\ ast.node = "WhileNode"
    /\ ast.condition.node = "BinOpNode"
    /\ tac_generator.code[1] = IfFalseInstruction(<<"b">>, <<"L", "0">>)
    /\ GotoInstruction(<<"L", "2">>) \in Range(tac_generator.code)

-----------------------------------------------------------------------------
(* Properties of the code compile generates.                                *)

IsAssignment(instruction) ==
    \E i \in 1..Len(instruction) - 3 : SubSeq(instruction, i, i + 3) = ASSIGNS

(* The kind of an instruction: "assignment", or its first word. *)
FirstWord(instruction) ==
    LET blanks == {i \in DOMAIN instruction : instruction[i] = " "}
    IN  IF blanks = {} THEN instruction
        ELSE SubSeq(instruction, 1,
                    (CHOOSE i \in blanks : \A j \in blanks : i <= j) - 1)

InstructionKind(instruction) ==
    IF IsAssignment(instruction) THEN <<"a","s","s","i","g","n","m","e","n","t">>
    ELSE FirstWord(instruction)

CountInstructions(code, kind) ==
    Cardinality({i \in DOMAIN code : InstructionKind(code[i]) = kind})

CountTokens(types) ==
    Cardinality({i \in DOMAIN tokens : tokens[i].type \in types})

(* C13: when compile returns True the code of the new generator begins with *)
(* PROGRAM and the program's name and ends with END, holds no other PROGRAM *)
(* or END instruction, one IF_FALSE for every if and while of the source    *)
(* and one WRITE for every write.  The example of main() compiles, to code  *)
(* from PROGRAM example to END with one IF_FALSE and one WRITE.             *)
C13_ProgramFrame ==
    /\ result = "True" =>
          LET code == tac_generator.code
          IN  /\ Len(code) >= 2
              /\ code[1] = <<"P","R","O","G","R","A","M"," ">> \o tokens[2].value
              /\ code[Len(code)] = <<"E","N","D">>
              /\ CountInstructions(code, <<"P","R","O","G","R","A","M">>) = 1
              /\ CountInstructions(code, <<"E","N","D">>) = 1
              /\ CountInstructions(code, <<"I","F","_","F","A","L","S","E">>)
                     = CountTokens({"IF", "WHILE"})
              /\ CountInstructions(code, <<"W","R","I","T","E">>)
                     = CountTokens({"WRITE"})
    /\ (source = example_code /\ pc = "done") =>
          /\ result = "True"
          /\ tac_generator.code[1] =
                 <<"P","R","O","G","R","A","M"," ","e","x","a","m","p","l","e">>
          /\ Last(tac_generator.code) = <<"E","N","D">>
          /\ CountInstructions(tac_generator.code,
                               <<"I","F","_","F","A","L","S","E">>) = 1
          /\ CountInstructions(tac_generator.code, <<"W","R","I","T","E">>) = 1

(* The example of main() compiled. *)
C13_ExampleCompiled ==
    /\ source = example_code
    /\ result = "True"
    /\ Len(tac_generator.code) = 12

-----------------------------------------------------------------------------
(* Properties of a Compiler that compiles twice.                            *)

(* C14: code generation is deterministic: when compile is given the same    *)
(* source text twice, so that the text is parsed twice and code generated   *)
(* from each of the two trees, both runs return the same and the two        *)
(* instruction sequences are identical.                                     *)
C14_SameSourceSameCode ==
    (pc = "done" /\ previous # None /\ previous.source = source) =>
        /\ result = previous.result
        /\ result = "True" => tac_generator.code = previous.code

(* The loop program compiled twice, with temporaries and labels in the code. *)
C14_LoopCompiledTwice ==
    /\ pc = "done"
    /\ previous # None
    /\ previous.source = source
    /\ result = "True"
    /\ tac_generator.temp_count > 1
    /\ tac_generator.label_count > 1

-----------------------------------------------------------------------------
(* Properties of the labels and temporaries in compiled code.               *)

(* The labels of the LABEL instructions, in the order of the code. *)
RECURSIVE DefinedLabels(_)
DefinedLabels(code) ==
    IF code = <<>> THEN <<>>
    ELSE IF InstructionKind(Head(code)) = <<"L","A","B","E","L">>
    THEN <<SubSeq(Head(code), 7, Len(Head(code)))>> \o DefinedLabels(Tail(code))
    ELSE DefinedLabels(Tail(code))

(* C15: an if without else allocates one label, the false label, and none   *)
(* for an end: a compiled program whose statements are ifs without else     *)
(* (and statements without control flow) has allocated as many labels as it *)
(* has ifs, and its LABEL instructions are numbered L0, L1, L2, ... in      *)
(* their order.                                                             *)
C15_OneLabelPerIfWithoutElse ==
    (result = "True" /\ CountTokens({"ELSE", "WHILE"}) = 0) =>
        /\ tac_generator.label_count = CountTokens({"IF"})
        /\ \A i \in DOMAIN DefinedLabels(tac_generator.code) :
               DefinedLabels(tac_generator.code)[i] = <<"L">> \o str_int(i - 1)

-----------------------------------------------------------------------------
(* Properties of one TACGenerator over its calls.                           *)

NoRepeats(s) == \A i, j \in DOMAIN s : s[i] = s[j] => i = j

(* How many of the names from position `from' on begin with `letter'. *)
CountNames(names, from, letter) ==
    Cardinality({i \in from .. Len(names) : names[i][1] = letter})

(* C16: on one TACGenerator, whatever is called on it: neither counter ever *)
(* decreases, no name new_temp or new_label returns was returned before,    *)
(* allocating temporaries moves only the temporary counter and allocating   *)
(* labels only the label counter, and the code only grows at its end.       *)
C16_CountersAndCodeOnlyGrow ==
    /\ [](NoRepeats(tac_generator.allocated))
    /\ [][LET g == tac_generator
              h == tac_generator'
              first == Len(g.allocated) + 1
          IN  /\ h.temp_count >= g.temp_count
              /\ h.label_count >= g.label_count
              /\ IsPrefix(g.code, h.code)
              /\ IsPrefix(g.allocated, h.allocated)
              /\ h.temp_count - g.temp_count = CountNames(h.allocated, first, "t")
              /\ h.label_count - g.label_count
                     = CountNames(h.allocated, first, "L")
              /\ Last(stages') = "new_temp" =>
                     /\ result' \notin Range(g.allocated)
                     /\ h.allocated = Append(g.allocated, result')
                     /\ h.label_count = g.label_count
                     /\ h.code = g.code
              /\ Last(stages') = "new_label" =>
                     /\ result' \notin Range(g.allocated)
                     /\ h.allocated = Append(g.allocated, result')
                     /\ h.temp_count = g.temp_count
                     /\ h.code = g.code]_vars

(* new_temp called on a generator that has lowered a loop. *)
C16_TemporaryAfterLoop ==
    /\ pc = "generator"
    /\ stages = <<"generate", "new_temp">>
    /\ ast.node = "WhileNode"
    /\ tac_generator.label_count = 2
    /\ result = Last(tac_generator.allocated)
    /\ tac_generator.temp_count > 2

(* The names of the sequence from position `from' on that begin with        *)
(* `letter' are letter0, letter1, ... counted from `start'.                 *)
NumberedFrom(names, from, letter, start) ==
    LET mine == {i \in from .. Len(names) : names[i][1] = letter}
    IN  {names[i] : i \in mine}
            = {<<letter>> \o str_int(n) : n \in start .. start + Cardinality(mine) - 1}

(* The call is generate(program_node) and every call before it was one. *)
GeneratesProgramAgain ==
    /\ Generates("ProgramNode")
    /\ \A i \in DOMAIN stages : stages[i] = "generate"
    /\ ast = None \/ ast.node = "ProgramNode"

(* C17 as stated: every generate(program_node), a second one on the same    *)
(* TACGenerator too, starts with both counters 0 and no code, and returns   *)
(* the instructions of that program only, numbered from t0 and L0.          *)
C17_EveryGenerateStartsFromZero ==
    [][GeneratesProgramAgain =>
          /\ tac_generator.temp_count = 0
          /\ tac_generator.label_count = 0
          /\ tac_generator.code = <<>>
          /\ result'[1] = <<"P","R","O","G","R","A","M"," ">> \o ast'.name
          /\ CountInstructions(result', <<"P","R","O","G","R","A","M">>) = 1
          /\ NumberedFrom(tac_generator'.allocated,
                          Len(tac_generator.allocated) + 1, "t", 0)
          /\ NumberedFrom(tac_generator'.allocated,
                          Len(tac_generator.allocated) + 1, "L", 0)]_vars

(* C17, amended: generate(program_node) on a TACGenerator just constructed  *)
(* starts with both counters 0 and no code and returns that program's       *)
(* instructions only, from PROGRAM to END, numbered from t0 and L0.         *)
(* generate resets nothing: on a TACGenerator that was used before, it      *)
(* returns the code that was there followed by the program's instructions,  *)
(* numbered from where the counters stood.                                  *)
C17_GenerateContinuesTheGenerator ==
    [][Generates("ProgramNode") =>
          LET g == tac_generator
              h == tac_generator'
              new == Added(g, h)
          IN  /\ stages = <<>> =>
                     g.temp_count = 0 /\ g.label_count = 0 /\ g.code = <<>>
              /\ result' = g.code \o new
              /\ new[1] = <<"P","R","O","G","R","A","M"," ">> \o ast'.name
              /\ Last(new) = <<"E","N","D">>
              /\ CountInstructions(new, <<"P","R","O","G","R","A","M">>) = 1
              /\ CountInstructions(new, <<"E","N","D">>) = 1
              /\ NumberedFrom(h.allocated, Len(g.allocated) + 1, "t",
                              g.temp_count)
              /\ NumberedFrom(h.allocated, Len(g.allocated) + 1, "L",
                              g.label_count)]_vars

(* generate(program_node) called twice on one TACGenerator. *)
C17_SecondGenerateOnTheSameGenerator ==
    /\ pc = "generator"
    /\ stages = <<"generate", "generate">>
    /\ ast.node = "ProgramNode"
    /\ CountInstructions(tac_generator.code, <<"P","R","O","G","R","A","M">>) = 2
    /\ result = tac_generator.code

-----------------------------------------------------------------------------
(* Properties of the SemanticAnalyzer of a Compiler that compiles twice.    *)

(* C18: analyze(program_node) builds the identifier-to-type mapping anew:   *)
(* once a program is analyzed, the symbol table of the analyzer holds the   *)
(* identifiers that program declares, with the declared types, and no       *)
(* others, whatever the same analyzer analyzed before.                      *)
C18_TableHoldsTheProgramsDeclarations ==
    (pc = "generate" \/ result = "True") =>
        /\ DOMAIN semantic_analyzer.symbol_table = Range(DeclaredIds(tokens))
        /\ \A d \in Range(ast.declarations) : \A id \in Range(d.identifiers) :
               semantic_analyzer.symbol_table[id] = d.type_node.type_name

-----------------------------------------------------------------------------
(* Properties of the programs parse() accepts.                              *)

(* C19: parse() returns a tree only for PROGRAM ID SEMI declarations BEGIN  *)
(* statements END DOT followed by the end of input, where `statements' is   *)
(* at least one statement: a text whose body is `begin end' is rejected and *)
(* has no tree.                                                             *)
C19_AcceptedBodyHasAStatement ==
    (pc \in {"analyze", "generate", "done"} /\ ast # None) =>
        /\ tokens[1].type = "PROGRAM"
        /\ tokens[2].type = "ID"
        /\ tokens[3].type = "SEMI"
        /\ tokens[Len(tokens) - 2].type = "END"
        /\ tokens[Len(tokens) - 1].type = "DOT"
        /\ tokens[Len(tokens)].type = "EOF"
        /\ tokens[Len(tokens) - 3].type # "BEGIN"
        /\ ast.statements # <<>>

-----------------------------------------------------------------------------
(* Properties of the names in compiled code.                                *)

(* The variables the source assigns to or reads into. *)
WrittenVariables(toks) ==
    {toks[i].value : i \in {j \in 1..Len(toks) - 1 :
        /\ toks[j].type = "ID"
        /\ \/ toks[j + 1].type = "ASSIGN"
           \/ j > 2 /\ toks[j - 2].type = "READ"}}

(* C20: in compiled code no variable the source program assigns to or reads *)
(* into has the name of a temporary the generator allocated in that run,    *)
(* also when the program declares a variable t0.                            *)
C20_TemporariesApartFromVariables ==
    result = "True" =>
        WrittenVariables(tokens) \cap Range(tac_generator.allocated) = {}

-----------------------------------------------------------------------------
(* Properties of the errors for undeclared targets.                         *)

(* C21: a program whose assignment or read statement has the undeclared     *)
(* target v fails in parsing with the undeclared-variable error that names  *)
(* v, raised at the target: no syntax error and no error for an undeclared  *)
(* factor further on in the statement is reported in its place.             *)
C21_UndeclaredTargetReportedFirst ==
    (source \in UndeclaredTargetPrograms /\ Len(stages) >= 2) =>
        /\ pc = "done"
        /\ ast = None
        /\ Len(errors) = 1
        /\ errors[1].kind = "Parsing failed"
        /\ errors[1].cause = NotDeclared(<<"v">>, 1)

-----------------------------------------------------------------------------
(* Properties of the jumps in compiled code.                                *)

LastWord(instruction) ==
    LET blanks == {i \in DOMAIN instruction : instruction[i] = " "}
    IN  IF blanks = {} THEN instruction
        ELSE SubSeq(instruction,
                    (CHOOSE i \in blanks : \A j \in blanks : i >= j) + 1,
                    Len(instruction))

(* The positions of the instructions of a kind. *)
InstructionsAt(code, kind) ==
    {i \in DOMAIN code : InstructionKind(code[i]) = kind}

(* The positions of the LABEL instructions that define the label. *)
DefinedAt(code, label) ==
    {j \in DOMAIN code : code[j] = LabelInstruction(label)}

(* The GOTO instructions whose label is defined before them. *)
BackwardJumps(code) ==
    {i \in InstructionsAt(code, <<"G","O","T","O">>) :
        \E j \in DefinedAt(code, LastWord(code[i])) : j < i}

(* C22: in the code of a compiled program every label a GOTO or an IF_FALSE *)
(* names is defined by exactly one LABEL instruction, no label is defined   *)
(* twice, every IF_FALSE jumps to a LABEL further on, and a GOTO jumps back *)
(* only as the last instruction of a loop: there is one such GOTO for each  *)
(* while, its label stands before the IF_FALSE of the loop, and the label   *)
(* that IF_FALSE names follows the GOTO immediately.                        *)
C22_JumpsWellFormed ==
    result = "True" =>
        LET code == tac_generator.code
            jumps == InstructionsAt(code, <<"G","O","T","O">>)
                         \cup InstructionsAt(code, <<"I","F","_","F","A","L","S","E">>)
        IN  /\ \A i \in jumps :
                   Cardinality(DefinedAt(code, LastWord(code[i]))) = 1
            /\ NoRepeats(DefinedLabels(code))
            /\ \A i \in InstructionsAt(code, <<"I","F","_","F","A","L","S","E">>) :
                   \A j \in DefinedAt(code, LastWord(code[i])) : j > i
            /\ Cardinality(BackwardJumps(code)) = CountTokens({"WHILE"})
            /\ \A i \in BackwardJumps(code) :
                   \A j \in DefinedAt(code, LastWord(code[i])) :
                       \E k \in j + 1 .. i - 1 :
                           /\ InstructionKind(code[k]) = <<"I","F","_","F","A","L","S","E">>
                           /\ code[i + 1] = LabelInstruction(LastWord(code[k]))

(* A loop around an if, behind an if with else: jumps of every kind. *)
C22_LoopAroundIfCompiled ==
    /\ result = "True"
    /\ CountTokens({"WHILE"}) = 1
    /\ CountTokens({"ELSE"}) = 1
    /\ CountTokens({"IF"}) = 2
    /\ Cardinality(BackwardJumps(tac_generator.code)) = 1
    /\ Cardinality(InstructionsAt(tac_generator.code, <<"G","O","T","O">>)) = 2

=============================================================================
